---- MODULE Spec2Model ----
(***************************************************************************)
(* State-machine model of the claude-memory MCP server, revision 2.7.0     *)
(* (src/unnamed/part_001, lines 1-1579): the five SQLite tables, the       *)
(* prepared statements, and the CallToolRequestSchema handler with one     *)
(* action per tool.                                                        *)
(*                                                                         *)
(* Representation.                                                         *)
(*  - A table is the set of its rows; a row is a record of its columns.    *)
(*  - SQL NULL in a TEXT column is the string NULL, a JavaScript undefined *)
(*    argument is the string UNDEF; NULL in a time column is NoTime.       *)
(*  - Free text (decision, rationale, error_pattern, content, search) is a *)
(*    sequence of one-character strings so that LIKE can be computed.      *)
(*  - A JavaScript number that may be fractional (priority) is held in     *)
(*    halves: the integer n stands for the number n / PriorityUnit.       *)
(*  - Time is counted in ticks, TicksPerDay ticks to a calendar day.       *)
(***************************************************************************)
EXTENDS Integers, Sequences, FiniteSets, TLC

\* ---------------------------------------------------------------- bounds
MaxRows == 3        \* row ids ever allotted in the five tables together
MaxNow == 2         \* last tick of the clock
MaxAccess == 1      \* recall-style reads stop once a returned row reached this access_count
MaxCalls == 1       \* calls suspended at an await at the same time

\* ------------------------------------------------------------- constants
TicksPerDay == 2
PriorityUnit == 2
DefaultPruneDays == 90
SpaceCode == 32
TCode == 84

\* ------------------------------------------------------------ value sets
NULL == "<null>"
UNDEF == "<undefined>"
NoTime == 0 - 1

Projects == {"app", "web"}
Workspaces == {"w1", "w2"}
Keys == {"k", "j"}
Values == {"v1", "v2"}
Categories == {"api"}
Tables == {"decisions", "errors", "learnings"}
\* free text is a sequence of characters; its NULL and undefined are sequences too
NullText == <<NULL>>
UndefText == <<UNDEF>>
NoDate == 0 - 1

Falsy(s) == s = UNDEF \/ s = NULL \/ s = ""
FalsyText(t) == t = UndefText \/ t = NullText \/ t = << >>
\* a || b of JavaScript on string-or-undefined operands
OrElse(a, b) == IF Falsy(a) THEN b ELSE a

Min(a, b) == IF a < b THEN a ELSE b
Max(a, b) == IF a > b THEN a ELSE b

\* ------------------------------------------------------------------ LIKE
\* SQLite LIKE: case-insensitive for ASCII letters, "%" any run, "_" any one character.
UpperCase == <<"A", "B", "C", "D", "E", "F", "G", "H", "I", "J", "K", "L", "M",
               "N", "O", "P", "Q", "R", "S", "T", "U", "V", "W", "X", "Y", "Z">>
LowerCase == <<"a", "b", "c", "d", "e", "f", "g", "h", "i", "j", "k", "l", "m",
               "n", "o", "p", "q", "r", "s", "t", "u", "v", "w", "x", "y", "z">>
\* each upper-case ASCII letter with the lower-case letter it is compared as
Folded == [c \in {UpperCase[i] : i \in 1..26} |->
             LowerCase[CHOOSE i \in 1..26 : UpperCase[i] = c]]
Lower(c) == IF c \in DOMAIN Folded THEN Folded[c] ELSE c

RECURSIVE LikeMatch(_, _)
LikeMatch(p, t) ==
  IF p = << >> THEN t = << >>
  ELSE IF Head(p) = "%"
    THEN LikeMatch(Tail(p), t) \/ (t # << >> /\ LikeMatch(p, Tail(t)))
  ELSE IF t = << >> THEN FALSE
  ELSE (Head(p) = "_" \/ Lower(Head(p)) = Lower(Head(t))) /\ LikeMatch(Tail(p), Tail(t))

\* column LIKE ?  with the column possibly NULL (NULL LIKE x is NULL, i.e. not true)
Like(column, pattern) == column # NullText /\ LikeMatch(pattern, column)

\* `%${s}%`: the template literal writes an undefined s as the text undefined and a null
\* s as the text null
Pattern(s) ==
  LET text == IF s = UndefText THEN <<"u", "n", "d", "e", "f", "i", "n", "e", "d">>
              ELSE IF s = NullText THEN <<"n", "u", "l", "l">>
              ELSE s
  IN <<"%">> \o text \o <<"%">>

\* ------------------------------------------------------------------ time
Day(t) == t \div TicksPerDay
TimeOfDay(t) == t % TicksPerDay

\* created_at is 'YYYY-MM-DD HH:MM:SS', the cutoff is toISOString() 'YYYY-MM-DDTHH:MM:SS.sssZ';
\* both are compared as text: the date first, then the separator, then the time of day.
SqlText(t) == <<Day(t), SpaceCode, TimeOfDay(t)>>
IsoText(t) == <<Day(t), TCode, TimeOfDay(t)>>

RECURSIVE TextLess(_, _)
TextLess(a, b) ==
  IF a = << >> THEN b # << >>
  ELSE IF b = << >> THEN FALSE
  ELSE IF Head(a) # Head(b) THEN Head(a) < Head(b)
  ELSE TextLess(Tail(a), Tail(b))

\* ------------------------------------------------------------- ordering
\* ORDER BY k1 DESC, k2 DESC; rows that tie keep the scan (rowid) order.
Before(a, b, k1, k2) ==
  \/ k1[a] > k1[b]
  \/ k1[a] = k1[b] /\ k2[a] > k2[b]
  \/ k1[a] = k1[b] /\ k2[a] = k2[b] /\ a.id < b.id

RECURSIVE OrderBy(_, _, _)
OrderBy(S, k1, k2) ==
  IF S = {} THEN << >>
  ELSE LET first == CHOOSE a \in S : \A b \in S \ {a} : ~Before(b, a, k1, k2)
       IN <<first>> \o OrderBy(S \ {first}, k1, k2)

\* LIMIT n (a negative n is no limit in SQLite)
Limit(s, n) == IF n < 0 THEN s ELSE SubSeq(s, 1, Min(n, Len(s)))

Range(s) == {s[i] : i \in 1..Len(s)}

VARIABLES
  decisions,      \* table decisions
  errors,         \* table errors
  context,        \* table context
  learnings,      \* table learnings
  sessions,       \* table sessions
  sqlite_sequence,\* AUTOINCREMENT high-water mark of every table
  config,         \* the configuration loadConfig() returned
  firestoreSync,  \* TRUE when initFirestoreSync() returned the mirror, FALSE when null
  pending,        \* the tool calls suspended at an await, each with the place it resumes at
  schema,         \* the columns of every table of the database file
  zone,           \* the offset of the process's local time from UTC, in ticks
  cloud,          \* the remote documents: a set of [table, docId, data]
  now,            \* the clock, in ticks
  result,         \* what the handler's last step returned (or the exception it let out)
  trace           \* bookkeeping about past calls that the properties refer to

vars == <<decisions, errors, context, learnings, sessions, sqlite_sequence,
          config, firestoreSync, pending, schema, zone, cloud, now, result, trace>>

store == <<decisions, errors, context, learnings, sessions, sqlite_sequence>>

\* ------------------------------------------------------------ exceptions
NoRows == [decisions |-> << >>, errors |-> << >>, learnings |-> << >>,
           context |-> << >>, sessions |-> << >>]
Rows(table, s) == [NoRows EXCEPT ![table] = s]

\* what a step of the handler returns when it leaves its call suspended at an await: nothing
NoResult == [tool |-> "", args |-> << >>, type |-> "none", text |-> "", detail |-> << >>,
             rows |-> NoRows]

\* What a case of the handler's switch does: it returns a value or it throws.
Returned(text, detail, rows) == [threw |-> FALSE, text |-> text, detail |-> detail, rows |-> rows]
Thrown(message) == [threw |-> TRUE, text |-> message, detail |-> << >>, rows |-> NoRows]

\* the switch without the try/catch around it: what a case throws leaves the handler
Handler_uncaught(name, args, o) ==
  IF o.threw
  THEN [tool |-> name, args |-> args, type |-> "exception", text |-> o.text,
        detail |-> << >>, rows |-> NoRows]
  ELSE [tool |-> name, args |-> args, type |-> "text", text |-> o.text,
        detail |-> o.detail, rows |-> o.rows]
\* The try/catch around the switch: whatever a case throws becomes an "Error: ..." text.
Handler(name, args, o) ==
  IF o.threw
  THEN [tool |-> name, args |-> args, type |-> "text", text |-> "Error: ",
        detail |-> <<o.text>>, rows |-> NoRows]
  ELSE [tool |-> name, args |-> args, type |-> "text", text |-> o.text,
        detail |-> o.detail, rows |-> o.rows]

\* ----------------------------------------------------------- the mirror
\* `${data.project || 'global'}_${data.id || Date.now()}`; id is already text here.
DocId(project, id) == OrElse(project, "global") \o "_" \o id

\* doc(docId).set({...data, syncedAt, machine}, {merge: true})
MergeFields(old, new) ==
  [f \in DOMAIN old \cup DOMAIN new |-> IF f \in DOMAIN new THEN new[f] ELSE old[f]]

\* A document is [table, docId, id, data]; id is the row id when the document id ends in
\* one and 0 otherwise (a snapshot lists documents by document id, digits before letters).
SetMerge(docs, table, docId, rowid, data, calledAt) ==
  LET stamped == MergeFields(data, [syncedAt |-> calledAt,
                                     machine |-> OrElse(config.machineId, "unknown")])
      old == {d \in docs : d.table = table /\ d.docId = docId}
      merged == IF old = {} THEN stamped
                ELSE MergeFields((CHOOSE d \in old : TRUE).data, stamped)
  IN (docs \ old) \cup {[table |-> table, docId |-> docId, id |-> rowid, data |-> merged]}

\* syncToCloud(table, data): the object is built, with new Date() as syncedAt, when the
\* function is called (calledAt); the set() rejects a document holding an undefined field
\* and may fail in transport; either way the catch swallows it and the cloud is unchanged.
syncToCloud(docs, table, docId, rowid, data, calledAt, hasUndefined, transportFails) ==
  IF hasUndefined \/ transportFails THEN docs
  ELSE SetMerge(docs, table, docId, rowid, data, calledAt)

\* syncToCloud without its try/catch: the rejection of set() reaches the caller
syncThrows_uncaught(hasUndefined, transportFails) == hasUndefined \/ transportFails
\* whether the promise of syncToCloud rejects: catch (e) { console.error(...) } lets nothing out
syncThrows(hasUndefined, transportFails) == FALSE

\* what a write returns after its push: the success text, unless the awaited push threw
AfterPush_annotated(hasUndefined, transportFails, success) ==
  IF firestoreSync /\ (hasUndefined \/ transportFails)
  THEN [success EXCEPT !.detail = <<" (not synced)">>] ELSE success

AfterPush(hasUndefined, transportFails, success) ==
  IF firestoreSync /\ syncThrows(hasUndefined, transportFails)
  THEN Thrown("Firestore sync error") ELSE success

\* pullFromCloud(table, project): the documents whose project field equals the argument.
pullFromCloud(table, project) ==
  LET S == {c \in cloud : c.table = table /\ c.data.project = project}
      numbered == [c \in S |-> IF c.id = 0 THEN 0 ELSE 1]
      none == [c \in S |-> 0]
      snapshot == OrderBy(S, numbered, none)
  IN [i \in 1..Len(snapshot) |-> snapshot[i].data]

\* ------------------------------------------------------- bookkeeping
\* trace.archived: the (table, id) pairs on which archive has succeeded
\* trace.push:     what became of the last call's write-time push: "none", "ok", "failed"
\* trace.lastSet:  per (project, key), the value of the last set_context not followed by
\*                 a delete_context (NULL when there is none)
\* trace.lastPut:  the same, counting every upsert of the key (import, pull) as a write
\* trace.exported: the project and the rows the last export_memory selected
\* trace.stage:    "exported" after an export_memory, "empty" once a server was then
\*                 started on an empty store, "imported" once import_memory was there
\*                 given the text that export returned
NoPush == "none"
NoExport == [project |-> UNDEF, decisions |-> {}, errors |-> {}, context |-> {}, learnings |-> {}]
PushState(attempted, failed) == IF ~attempted THEN NoPush ELSE IF failed THEN "failed" ELSE "ok"

\* ------------------------------------------------- prepared statements
\* column = ?  is true only of two equal non-NULL values (undefined binds as NULL)
SqlEq(a, b) == a # NULL /\ b # NULL /\ b # UNDEF /\ a = b

\* a read that leaves the archived filter out
Live_unfiltered(r) == r.archived \in {0, 1}
Live(r) == r.archived = 0     \* (archived IS NULL OR archived = 0); the column is never NULL

\* INSERT INTO decisions (project, date, decision, rationale, category) VALUES (?,?,?,?,?)
insertDecision(id, project, date, decision, rationale, category) ==
  [id |-> id, project |-> project, date |-> date, decision |-> decision,
   rationale |-> rationale, category |-> category, priority |-> 0, archived |-> 0,
   access_count |-> 0, last_accessed |-> NoTime, created_at |-> now]

\* ORDER BY date DESC alone
ByPriority_ignored(S) == [r \in S |-> 0]
ByPriority(S) == [r \in S |-> r.priority]
ByDate(S) == [r \in S |-> r.date]
ByCreated(S) == [r \in S |-> r.created_at]

\* the statement without the project condition
getDecisions_anyProject(project, limit) ==
  LET S == {r \in decisions : Live(r)}
  IN Limit(OrderBy(S, ByPriority(S), ByDate(S)), limit)
getDecisions(project, limit) ==
  LET S == {r \in decisions : SqlEq(r.project, project) /\ Live(r)}
  IN Limit(OrderBy(S, ByPriority(S), ByDate(S)), limit)

getDecisionsByCategory(project, category, limit) ==
  LET S == {r \in decisions : SqlEq(r.project, project) /\ SqlEq(r.category, category) /\ Live(r)}
  IN Limit(OrderBy(S, ByPriority(S), ByDate(S)), limit)

searchDecisions(project, pattern1, pattern2) ==
  LET S == {r \in decisions : /\ SqlEq(r.project, project)
                              /\ Live(r)
                              /\ (Like(r.decision, pattern1) \/ Like(r.rationale, pattern2))}
  IN OrderBy(S, ByPriority(S), ByDate(S))

\* UPDATE t SET access_count = COALESCE(access_count, 0) + 1, last_accessed = CURRENT_TIMESTAMP
\* WHERE id = ?   for every id of ids
trackAccess_everyRow(table, ids) ==
  {[r EXCEPT !.access_count = @ + 1, !.last_accessed = now] : r \in table}

trackAccess(table, ids) ==
  {IF r.id \in ids THEN [r EXCEPT !.access_count = @ + 1, !.last_accessed = now] ELSE r
     : r \in table}

Ids(s) == {s[i].id : i \in 1..Len(s)}
\* the bound of the model on access tracking
CanTrack(s) == \A i \in 1..Len(s) : s[i].access_count < MaxAccess

\* a statement's run() throws on a NOT NULL column bound to null or undefined
Missing(v) == v = NULL \/ v = UNDEF
MissingText(t) == t = NullText \/ t = UndefText

\* INSERT INTO errors (project, error_pattern, solution, context, category) VALUES (?,?,?,?,?)
insertError(id, project, error_pattern, solution, ctx, category) ==
  [id |-> id, project |-> project, error_pattern |-> error_pattern, solution |-> solution,
   context |-> ctx, category |-> category, priority |-> 0, archived |-> 0,
   access_count |-> 0, last_accessed |-> NoTime, created_at |-> now]

findSolution(project, pattern) ==
  LET S == {r \in errors : SqlEq(r.project, project) /\ Live(r) /\ Like(r.error_pattern, pattern)}
  IN Limit(OrderBy(S, ByPriority(S), ByCreated(S)), 5)

findSolutionByCategory(project, category, pattern) ==
  LET S == {r \in errors : /\ SqlEq(r.project, project)
                           /\ SqlEq(r.category, category)
                           /\ Live(r)
                           /\ Like(r.error_pattern, pattern)}
  IN Limit(OrderBy(S, ByPriority(S), ByCreated(S)), 5)

getRecentErrors(project, limit) ==
  LET S == {r \in errors : SqlEq(r.project, project) /\ Live(r)}
  IN Limit(OrderBy(S, ByPriority(S), ByCreated(S)), limit)

\* INSERT INTO learnings (project, category, content) VALUES (?,?,?)
insertLearning(id, project, category, content) ==
  [id |-> id, project |-> project, category |-> category, content |-> content,
   priority |-> 0, archived |-> 0, access_count |-> 0, last_accessed |-> NoTime,
   created_at |-> now]

\* created_at DESC over "project = ? OR project IS NULL": the rows come from two scans of
\* idx_learnings_project, the named project's first and the NULL project's after, each in
\* rowid order, and rows that tie in the ORDER BY keep that order
ByCreatedThenIndex(S) == [r \in S |-> 2 * r.created_at + (IF r.project = NULL THEN 0 ELSE 1)]

\* the statement without the project condition
getLearnings_anyProject(project, limit) ==
  LET S == {r \in learnings : Live(r)}
  IN Limit(OrderBy(S, ByPriority(S), ByCreated(S)), limit)
getLearnings(project, limit) ==
  LET S == {r \in learnings : (SqlEq(r.project, project) \/ r.project = NULL) /\ Live(r)}
  IN Limit(OrderBy(S, ByPriority(S), ByCreatedThenIndex(S)), limit)

searchLearnings(project, pattern) ==
  LET S == {r \in learnings : /\ (SqlEq(r.project, project) \/ r.project = NULL)
                              /\ Live(r)
                              /\ Like(r.content, pattern)}
  IN OrderBy(S, ByPriority(S), ByCreatedThenIndex(S))

\* SELECT * FROM learnings WHERE project IS NULL AND (archived ...) ORDER BY created_at DESC LIMIT n
getGlobalLearnings(limit) ==
  LET S == {r \in learnings : r.project = NULL /\ Live(r)}
  IN Limit(OrderBy(S, ByCreated(S), ByCreated(S)), limit)

\* ------------------------------------------------------------ the tools
\* the bookkeeping after a call that is neither an export nor the import of one
Trace(push) == [trace EXCEPT !.push = push, !.stage = "", !.exported = NoExport]
Synced == IF firestoreSync THEN " (synced)" ELSE ""
NextId(table) == sqlite_sequence[table] + 1
\* the row ids allotted so far (an upsert that updates a row allots one too), which the
\* model bounds by MaxRows
RowsInserted ==
  sqlite_sequence["decisions"] + sqlite_sequence["errors"] + sqlite_sequence["context"]
  + sqlite_sequence["learnings"] + sqlite_sequence["sessions"]
Bump(table) == [sqlite_sequence EXCEPT ![table] = @ + 1]

\* ------------------------------------------------- calls suspended at an await
\* The handler is an async function: at an await it returns to the event loop, which runs
\* the handler of the next request; what one invocation does between two awaits is one step.
\* A suspended call keeps its locals: the tool and its arguments, the table its loop is at
\* (or "push"), the rows of that table still to push, the records counted so far, and the
\* push in flight.
FreeNumber == CHOOSE n \in 1..MaxCalls : \A p \in pending : p.n # n

Suspended(n, tool, args, at, pulled, queue, push) ==
  [n |-> n, tool |-> tool, args |-> args, at |-> at, pulled |-> pulled, queue |-> queue,
   push |-> push]

\* what syncToCloud(table, data) was called with, and when; success is what the calling
\* case returns once the push has settled
Pushed(table, docId, rowid, data, hasUndefined, success) ==
  [table |-> table, docId |-> docId, rowid |-> rowid, data |-> data, calledAt |-> now,
   hasUndefined |-> hasUndefined, success |-> success]
NoPushed == Pushed("", "", 0, [id |-> ""], FALSE, Returned("", << >>, NoRows))

\* if (firestoreSync) { await firestoreSync.syncToCloud(table, data); }  return success;
\* with the mirror the call suspends at the await, without it the call returns at once
AwaitPush(tool, args, table, docId, rowid, data, hasUndefined, success) ==
  IF firestoreSync
  THEN /\ Cardinality(pending) < MaxCalls
       /\ pending' = pending \cup {Suspended(FreeNumber, tool, args, "push", 0, << >>,
                                              Pushed(table, docId, rowid, data, hasUndefined,
                                                     success))}
       /\ result' = NoResult
  ELSE /\ UNCHANGED pending
       /\ result' = Handler(tool, args, success)

\* case "remember_decision"
remember_decision(args) ==
  LET date == IF args.date = NoDate THEN Day(now) ELSE args.date
      id == NextId("decisions")
      throws == Missing(args.project) \/ MissingText(args.decision)
      row == insertDecision(id, args.project, date, args.decision,
                            IF FalsyText(args.rationale) THEN NullText ELSE args.rationale,
                            OrElse(args.category, NULL))
      hasUndefined == args.rationale = UndefText \/ args.category = UNDEF
      data == [id |-> ToString(id), project |-> args.project, date |-> date, decision |-> args.decision,
               rationale |-> args.rationale, category |-> args.category]
  IN /\ throws \/ RowsInserted < MaxRows
     /\ UNCHANGED <<errors, context, learnings, sessions, config, firestoreSync, schema, zone, cloud, now>>
     /\ IF throws
        THEN /\ UNCHANGED <<decisions, sqlite_sequence, pending>>
             /\ result' = Handler("remember_decision", args, Thrown("NOT NULL constraint failed"))
             /\ trace' = Trace(NoPush)
        ELSE /\ decisions' = decisions \cup {row}
             /\ sqlite_sequence' = Bump("decisions")
             /\ AwaitPush("remember_decision", args, "decisions", DocId(args.project, ToString(id)), id, data, hasUndefined,
                          Returned("Decision stored for ", <<args.project, Synced>>, NoRows))
             /\ trace' = Trace(NoPush)

\* case "recall_decisions"
recall_decisions_searchFirst(args) ==
  LET limit == IF args.limit = 0 THEN 10 ELSE args.limit
      results == IF ~FalsyText(args.search)
                 THEN searchDecisions(args.project, Pattern(args.search), Pattern(args.search))
                 ELSE IF ~Falsy(args.category)
                 THEN getDecisionsByCategory(args.project, args.category, limit)
                 ELSE getDecisions(args.project, limit)
  IN /\ CanTrack(results)
     /\ decisions' = trackAccess(decisions, Ids(results))
     /\ UNCHANGED <<errors, context, learnings, sessions, sqlite_sequence, config, firestoreSync, pending, schema, zone,
                    cloud, now>>
     /\ result' = Handler("recall_decisions", args,
                    Returned(IF Len(results) > 0 THEN "" ELSE "No decisions found for this project",
                             << >>, Rows("decisions", results)))
     /\ trace' = Trace(NoPush)

recall_decisions(args) ==
  LET limit == IF args.limit = 0 THEN 10 ELSE args.limit
      results == IF ~Falsy(args.category)
                 THEN getDecisionsByCategory(args.project, args.category, limit)
                 ELSE IF ~FalsyText(args.search)
                 THEN searchDecisions(args.project, Pattern(args.search), Pattern(args.search))
                 ELSE getDecisions(args.project, limit)
  IN /\ CanTrack(results)
     /\ decisions' = trackAccess(decisions, Ids(results))
     /\ UNCHANGED <<errors, context, learnings, sessions, sqlite_sequence, config, firestoreSync, pending, schema, zone,
                    cloud, now>>
     /\ result' = Handler("recall_decisions", args,
                    Returned(IF Len(results) > 0 THEN "" ELSE "No decisions found for this project",
                             << >>, Rows("decisions", results)))
     /\ trace' = Trace(NoPush)

\* case "list_decisions"
list_decisions(args) ==
  LET results == getDecisions(args.project, IF args.limit = 0 THEN 10 ELSE args.limit)
  IN /\ UNCHANGED <<store, config, firestoreSync, pending, schema, zone, cloud, now>>
     /\ result' = Handler("list_decisions", args,
                    Returned(IF Len(results) > 0 THEN "" ELSE "No decisions found for this project",
                             << >>, Rows("decisions", results)))
     /\ trace' = Trace(NoPush)

\* case "remember_error"
remember_error(args) ==
  LET id == NextId("errors")
      throws == Missing(args.project) \/ MissingText(args.error_pattern) \/ MissingText(args.solution)
      row == insertError(id, args.project, args.error_pattern, args.solution,
                         IF FalsyText(args.context) THEN NullText ELSE args.context,
                         OrElse(args.category, NULL))
      hasUndefined == args.context = UndefText \/ args.category = UNDEF
      data == [id |-> ToString(id), project |-> args.project, error_pattern |-> args.error_pattern,
               solution |-> args.solution, context |-> args.context, category |-> args.category]
  IN /\ throws \/ RowsInserted < MaxRows
     /\ UNCHANGED <<decisions, context, learnings, sessions, config, firestoreSync, schema, zone, cloud, now>>
     /\ IF throws
        THEN /\ UNCHANGED <<errors, sqlite_sequence, pending>>
             /\ result' = Handler("remember_error", args, Thrown("NOT NULL constraint failed"))
             /\ trace' = Trace(NoPush)
        ELSE /\ errors' = errors \cup {row}
             /\ sqlite_sequence' = Bump("errors")
             /\ AwaitPush("remember_error", args, "errors", DocId(args.project, ToString(id)), id, data, hasUndefined,
                          Returned("Error solution stored for ", <<args.project, Synced>>, NoRows))
             /\ trace' = Trace(NoPush)

\* case "find_solution"
find_solution(args) ==
  LET results == IF ~Falsy(args.category)
                 THEN findSolutionByCategory(args.project, args.category, Pattern(args.error))
                 ELSE findSolution(args.project, Pattern(args.error))
  IN /\ CanTrack(results)
     /\ errors' = trackAccess(errors, Ids(results))
     /\ UNCHANGED <<decisions, context, learnings, sessions, sqlite_sequence, config, firestoreSync, pending, schema, zone,
                    cloud, now>>
     /\ result' = Handler("find_solution", args,
                    Returned(IF Len(results) > 0 THEN "" ELSE "No matching solutions found",
                             << >>, Rows("errors", results)))
     /\ trace' = Trace(NoPush)

\* case "list_errors"
list_errors(args) ==
  LET results == getRecentErrors(args.project, IF args.limit = 0 THEN 10 ELSE args.limit)
  IN /\ UNCHANGED <<store, config, firestoreSync, pending, schema, zone, cloud, now>>
     /\ result' = Handler("list_errors", args,
                    Returned(IF Len(results) > 0 THEN "" ELSE "No errors stored for this project",
                             << >>, Rows("errors", results)))
     /\ trace' = Trace(NoPush)

\* case "remember_learning"
remember_learning(args) ==
  LET id == NextId("learnings")
      throws == Missing(args.category) \/ MissingText(args.content)
      row == insertLearning(id, OrElse(args.project, NULL), args.category, args.content)
      hasUndefined == args.project = UNDEF
      data == [id |-> ToString(id), project |-> args.project, category |-> args.category,
               content |-> args.content]
  IN /\ throws \/ RowsInserted < MaxRows
     /\ UNCHANGED <<decisions, errors, context, sessions, config, firestoreSync, schema, zone, cloud, now>>
     /\ IF throws
        THEN /\ UNCHANGED <<learnings, sqlite_sequence, pending>>
             /\ result' = Handler("remember_learning", args, Thrown("NOT NULL constraint failed"))
             /\ trace' = Trace(NoPush)
        ELSE /\ learnings' = learnings \cup {row}
             /\ sqlite_sequence' = Bump("learnings")
             /\ AwaitPush("remember_learning", args, "learnings", DocId(args.project, ToString(id)), id, data, hasUndefined,
                          Returned("Learning stored (", <<args.category, Synced>>, NoRows))
             /\ trace' = Trace(NoPush)

\* case "recall_learnings"
recall_learnings(args) ==
  LET results == IF ~FalsyText(args.search)
                 THEN searchLearnings(args.project, Pattern(args.search))
                 ELSE getLearnings(args.project, IF args.limit = 0 THEN 20 ELSE args.limit)
  IN /\ CanTrack(results)
     /\ learnings' = trackAccess(learnings, Ids(results))
     /\ UNCHANGED <<decisions, errors, context, sessions, sqlite_sequence, config, firestoreSync, pending, schema, zone,
                    cloud, now>>
     /\ result' = Handler("recall_learnings", args,
                    Returned(IF Len(results) > 0 THEN "" ELSE "No learnings found",
                             << >>, Rows("learnings", results)))
     /\ trace' = Trace(NoPush)

\* ------------------------------------------------ archive, priority, prune
\* names every object literal answers to through Object.prototype: tableMap[name] is a
\* function or an object, which is truthy and is no table
ObjectPrototype ==
  {"constructor", "toString", "toLocaleString", "valueOf", "hasOwnProperty",
   "isPrototypeOf", "propertyIsEnumerable", "__defineGetter__", "__defineSetter__",
   "__lookupGetter__", "__lookupSetter__", "__proto__"}
INHERITED == "<inherited>"
\* what db.prepare throws on `UPDATE ${table} SET ...` with such a table: the prototype
\* itself is written "[object Object]", a bracketed name of no table, and a function is
\* written as its source text, which is no statement
PrepareThrows(type) ==
  IF type = "__proto__" THEN "no such table: object Object" ELSE "syntax error"

tableMap(type) ==
  CASE type = "decision" -> "decisions"
    [] type = "error" -> "errors"
    [] type = "learning" -> "learnings"
    [] type \in ObjectPrototype -> INHERITED
    [] OTHER -> UNDEF

TableRows(table) ==
  CASE table = "decisions" -> decisions
    [] table = "errors" -> errors
    [] table = "learnings" -> learnings

SetTable(table, rows) ==
  /\ decisions' = IF table = "decisions" THEN rows ELSE decisions
  /\ errors' = IF table = "errors" THEN rows ELSE errors
  /\ learnings' = IF table = "learnings" THEN rows ELSE learnings

\* UPDATE ${table} SET archived = 1 WHERE id = ?
setArchived(rows, id) == {IF r.id = id THEN [r EXCEPT !.archived = 1] ELSE r : r \in rows}

\* UPDATE ${table} SET priority = ? WHERE id = ?
setPriority_unarchiving(rows, priority, id) ==
  {IF r.id = id THEN [r EXCEPT !.priority = priority, !.archived = 0] ELSE r : r \in rows}

setPriority(rows, priority, id) ==
  {IF r.id = id THEN [r EXCEPT !.priority = priority] ELSE r : r \in rows}

Changes(rows, id) == Cardinality({r \in rows : r.id = id})

\* case "archive"
archive(args) ==
  LET table == tableMap(args.type)
  IN /\ UNCHANGED <<context, sessions, sqlite_sequence, config, firestoreSync, pending, schema, zone, cloud, now>>
     /\ IF table = UNDEF
        THEN /\ UNCHANGED <<decisions, errors, learnings>>
             /\ result' = Handler("archive", args, Returned("Invalid type: ", <<args.type>>, NoRows))
             /\ trace' = Trace(NoPush)
        ELSE IF table = INHERITED
        THEN /\ UNCHANGED <<decisions, errors, learnings>>
             /\ result' = Handler("archive", args, Thrown(PrepareThrows(args.type)))
             /\ trace' = Trace(NoPush)
        ELSE LET changes == Changes(TableRows(table), args.id)
             IN /\ SetTable(table, setArchived(TableRows(table), args.id))
                /\ result' = Handler("archive", args,
                               Returned(IF changes > 0 THEN "Archived " ELSE "No item found with ID ",
                                        <<args.type, args.id>>, NoRows))
                /\ trace' = [Trace(NoPush) EXCEPT
                                          !.archived = IF changes > 0
                                                       THEN @ \cup {<<table, args.id>>} ELSE @]

\* if (priority < 0 || priority > 2) on a JavaScript number held in halves
PriorityRejected(priority) == priority < 0 \/ priority > 2 * PriorityUnit

\* case "set_priority"
set_priority(args) ==
  LET table == tableMap(args.type)
  IN /\ UNCHANGED <<context, sessions, sqlite_sequence, config, firestoreSync, pending, schema, zone, cloud, now>>
     /\ trace' = Trace(NoPush)
     /\ IF table = UNDEF
        THEN /\ UNCHANGED <<decisions, errors, learnings>>
             /\ result' = Handler("set_priority", args,
                            Returned("Invalid type: ", <<args.type>>, NoRows))
        ELSE IF PriorityRejected(args.priority)
        THEN /\ UNCHANGED <<decisions, errors, learnings>>
             /\ result' = Handler("set_priority", args,
                            Returned("Invalid priority: ", <<args.priority>>, NoRows))
        ELSE IF table = INHERITED
        THEN /\ UNCHANGED <<decisions, errors, learnings>>
             /\ result' = Handler("set_priority", args, Thrown(PrepareThrows(args.type)))
        ELSE LET changes == Changes(TableRows(table), args.id)
             IN /\ SetTable(table, setPriority(TableRows(table), args.priority, args.id))
                /\ result' = Handler("set_priority", args,
                               Returned(IF changes > 0 THEN "Set priority" ELSE "No item found with ID ",
                                        <<args.type, args.id, args.priority>>, NoRows))

\* DELETE FROM ${table} WHERE archived = 1 AND created_at < ? [AND project = ?]
\* DELETE FROM ${table} WHERE created_at < ? [AND project = ?]
Pruned_unarchived(rows, cutoffDate, project) ==
  {r \in rows : /\ TextLess(SqlText(r.created_at), cutoffDate)
                /\ (project # "all" => SqlEq(r.project, project))}
Pruned(rows, cutoffDate, project) ==
  {r \in rows : /\ r.archived = 1
                /\ TextLess(SqlText(r.created_at), cutoffDate)
                /\ (project # "all" => SqlEq(r.project, project))}

\* case "prune"
prune(args) ==
  LET days == IF args.days = 0 THEN DefaultPruneDays ELSE args.days
      cutoffDate == IsoText(now - days * TicksPerDay)
      gone == [t \in Tables |-> Pruned(TableRows(t), cutoffDate, args.project)]
      totalDeleted == Cardinality(gone["decisions"]) + Cardinality(gone["errors"])
                      + Cardinality(gone["learnings"])
  IN /\ decisions' = decisions \ gone["decisions"]
     /\ errors' = errors \ gone["errors"]
     /\ learnings' = learnings \ gone["learnings"]
     /\ UNCHANGED <<context, sessions, sqlite_sequence, config, firestoreSync, pending, schema, zone, cloud, now>>
     /\ result' = Handler("prune", args, Returned("Pruned ", <<totalDeleted, days>>, NoRows))
     /\ trace' = Trace(NoPush)

\* --------------------------------------------------------------- context
\* INSERT INTO context ... ON CONFLICT(project, key) DO UPDATE SET value = excluded.value, ...
\* gives the table after the statement; project and key are NOT NULL, so equal pairs conflict.
\* The statement allots the next AUTOINCREMENT id before it meets the conflict, so the mark
\* of the table advances whether the row is inserted or updated.
ContextConflict(rows, project, key) == {r \in rows : r.project = project /\ r.key = key}

\* INSERT without the ON CONFLICT clause and without the unique index
upsertContext_insertOnly(rows, id, project, key, value) ==
  rows \cup {[id |-> id, project |-> project, key |-> key, value |-> value, updated_at |-> now]}
upsertContext(rows, id, project, key, value) ==
  LET old == ContextConflict(rows, project, key)
  IN IF old = {}
     THEN rows \cup {[id |-> id, project |-> project, key |-> key, value |-> value,
                      updated_at |-> now]}
     ELSE {IF r \in old THEN [r EXCEPT !.value = value, !.updated_at = now] ELSE r : r \in rows}

\* the statement throws when a NOT NULL column is bound to null or undefined
upsertContextThrows(project, key, value) == Missing(project) \/ Missing(key) \/ Missing(value)

ById(S) == [r \in S |-> 0 - r.id]
Zero(S) == [r \in S |-> 0]
\* rows of a SELECT without ORDER BY, in rowid order
Scan(S) == OrderBy(S, Zero(S), Zero(S))

getContext(project) == Scan({r \in context : SqlEq(r.project, project)})
getContextValue(project, key) ==
  Scan({r \in context : SqlEq(r.project, project) /\ SqlEq(r.key, key)})
deleteContext(project, key) ==
  {r \in context : ~(SqlEq(r.project, project) /\ SqlEq(r.key, key))}

\* the bookkeeping of trace.lastSet / trace.lastPut
Put(f, project, key, value) == [f EXCEPT ![<<project, key>>] = value]
KnownKey(project, key) == project \in Projects /\ key \in Keys

\* case "set_context"
set_context(args) ==
  LET throws == upsertContextThrows(args.project, args.key, args.value)
      id == NextId("context")
      data == [id |-> args.project \o "_" \o args.key, project |-> args.project,
               key |-> args.key, value |-> args.value]
  IN /\ throws \/ RowsInserted < MaxRows
     /\ UNCHANGED <<decisions, errors, learnings, sessions, config, firestoreSync, schema, zone, cloud, now>>
     /\ IF throws
        THEN /\ UNCHANGED <<context, sqlite_sequence, pending>>
             /\ result' = Handler("set_context", args, Thrown("NOT NULL constraint failed"))
             /\ trace' = Trace(NoPush)
        ELSE /\ context' = upsertContext(context, id, args.project, args.key, args.value)
             /\ sqlite_sequence' = Bump("context")
             /\ AwaitPush("set_context", args, "context", DocId(args.project, data.id), 0, data, FALSE,
                          Returned("Context set for ", <<args.key, args.project, Synced>>, NoRows))
             /\ trace' = [Trace(NoPush) EXCEPT
                            !.lastSet = Put(@, args.project, args.key, args.value),
                            !.lastPut = Put(@, args.project, args.key, args.value)]

\* case "get_context"
get_context(args) ==
  /\ UNCHANGED <<store, config, firestoreSync, pending, schema, zone, cloud, now>>
  /\ trace' = Trace(NoPush)
  /\ IF ~Falsy(args.key)
     THEN LET found == getContextValue(args.project, args.key)
          IN result' = Handler("get_context", args,
               Returned(IF Len(found) > 0 THEN "" ELSE "No value found for ",
                        <<args.key>>, Rows("context", Limit(found, 1))))
     ELSE LET results == getContext(args.project)
          IN result' = Handler("get_context", args,
               Returned(IF Len(results) > 0 THEN "" ELSE "No context stored for this project",
                        << >>, Rows("context", results)))

\* case "delete_context"
delete_context(args) ==
  LET changes == Cardinality(context \ deleteContext(args.project, args.key))
  IN /\ context' = deleteContext(args.project, args.key)
     /\ UNCHANGED <<decisions, errors, learnings, sessions, sqlite_sequence, config, firestoreSync, pending, schema, zone,
                    cloud, now>>
     /\ result' = Handler("delete_context", args,
                    Returned(IF changes > 0 THEN "Deleted context key " ELSE "No context key found ",
                             <<args.key, args.project>>, NoRows))
     /\ trace' = [Trace(NoPush) EXCEPT
                    !.lastSet = IF KnownKey(args.project, args.key)
                                THEN Put(@, args.project, args.key, NULL) ELSE @,
                    !.lastPut = IF KnownKey(args.project, args.key)
                                THEN Put(@, args.project, args.key, NULL) ELSE @]

\* -------------------------------------------------------------- sessions
\* INSERT INTO sessions ... ON CONFLICT(project, workspace) DO UPDATE ...
\* UNIQUE(project, workspace): SQLite holds every NULL distinct from every other NULL in a
\* unique index, so a row whose workspace is NULL conflicts with no row.
\* the schema before the workspace migration: UNIQUE(project)
SessionConflict_projectOnly(rows, project, workspace) == {r \in rows : r.project = project}
SessionConflict(rows, project, workspace) ==
  {r \in rows : r.project = project /\ workspace # NULL /\ r.workspace = workspace}

upsertSessionWithWorkspace(rows, id, project, workspace, task, status, notes) ==
  LET old == SessionConflict(rows, project, workspace)
  IN IF old = {}
     THEN rows \cup {[id |-> id, project |-> project, workspace |-> workspace, task |-> task,
                      status |-> status, notes |-> notes, updated_at |-> now]}
     ELSE {IF r \in old
           THEN [r EXCEPT !.task = task, !.status = status, !.notes = notes, !.updated_at = now]
           ELSE r : r \in rows}

\* WHERE project = ? AND (workspace = ? OR (workspace IS NULL AND ? IS NULL))
SessionMatches(r, project, workspace) ==
  /\ SqlEq(r.project, project)
  /\ (SqlEq(r.workspace, workspace) \/ (r.workspace = NULL /\ workspace = NULL))

getSessionWithWorkspace(project, workspace) ==
  Limit(Scan({r \in sessions : SessionMatches(r, project, workspace)}), 1)

deleteSessionWithWorkspace(project, workspace) ==
  {r \in sessions : ~SessionMatches(r, project, workspace)}

ByUpdated(S) == [r \in S |-> r.updated_at]
\* SELECT * FROM sessions WHERE project = ? ORDER BY updated_at DESC
getAllSessionsForProject(project) ==
  LET S == {r \in sessions : SqlEq(r.project, project)}
  IN OrderBy(S, ByUpdated(S), Zero(S))

\* case "save_session"
save_session(args) ==
  LET workspace == OrElse(args.workspace, NULL)
      throws == Missing(args.project) \/ Missing(args.task)
      id == NextId("sessions")
      hasUndefined == args.status = UNDEF \/ args.notes = UNDEF
      data == [id |-> IF workspace # NULL THEN args.project \o ":" \o workspace
                      ELSE args.project,
               project |-> args.project, workspace |-> workspace, task |-> args.task,
               status |-> args.status, notes |-> args.notes]
  IN /\ throws \/ RowsInserted < MaxRows
     /\ UNCHANGED <<decisions, errors, context, learnings, config, firestoreSync, schema, zone, cloud, now>>
     /\ IF throws
        THEN /\ UNCHANGED <<sessions, sqlite_sequence, pending>>
             /\ result' = Handler("save_session", args, Thrown("NOT NULL constraint failed"))
             /\ trace' = Trace(NoPush)
        ELSE /\ sessions' = upsertSessionWithWorkspace(sessions, id, args.project, workspace,
                              args.task, OrElse(args.status, "in-progress"),
                              OrElse(args.notes, NULL))
             /\ sqlite_sequence' = Bump("sessions")
             /\ AwaitPush("save_session", args, "sessions", DocId(args.project, data.id), 0, data, hasUndefined,
                          Returned("Session saved for ", <<args.project, workspace, args.task, Synced>>, NoRows))
             /\ trace' = Trace(NoPush)

\* case "get_session"
get_session(args) ==
  LET sessionRows == IF args.workspace # UNDEF
                     THEN getSessionWithWorkspace(args.project, args.workspace)
                     ELSE getAllSessionsForProject(args.project)
  IN /\ UNCHANGED <<store, config, firestoreSync, pending, schema, zone, cloud, now>>
     /\ trace' = Trace(NoPush)
     /\ result' = Handler("get_session", args,
                    Returned(IF Len(sessionRows) > 0 THEN "" ELSE "No saved session found",
                             << >>, Rows("sessions", sessionRows)))

\* case "clear_session"
clear_session(args) ==
  LET kept == IF args.workspace # UNDEF
              THEN deleteSessionWithWorkspace(args.project, args.workspace)
              ELSE {r \in sessions : ~SqlEq(r.project, args.project)}
      changes == Cardinality(sessions \ kept)
  IN /\ sessions' = kept
     /\ UNCHANGED <<decisions, errors, context, learnings, sqlite_sequence, config, firestoreSync, pending, schema, zone,
                    cloud, now>>
     /\ trace' = Trace(NoPush)
     /\ result' = Handler("clear_session", args,
                    Returned(IF changes = 0
                             THEN (IF args.workspace # UNDEF THEN "No session to clear"
                                   ELSE "No sessions to clear")
                             ELSE (IF args.workspace # UNDEF THEN "Session cleared for "
                                   ELSE "All sessions cleared for "),
                             <<args.project, changes>>, NoRows))

\* -------------------------------------------------------- export, import
\* The session statements this revision defines are upsertSessionWithWorkspace,
\* getSessionWithWorkspace, deleteSessionWithWorkspace and getAllSessionsForProject;
\* export_memory, import_memory and pull_from_cloud name getSession and upsertSession,
\* which no declaration binds: evaluating either throws a ReferenceError.
getSessionDefined == FALSE
upsertSessionDefined == FALSE

\* number of ? in insertDecision / insertError, and of the values import and pull pass
InsertDecisionParams == 5
InsertErrorParams == 5
ImportDecisionValues == 4
ImportErrorValues == 4

\* run(...values) throws a RangeError unless it is given as many values as the statement has ?
RunThrows(params, values) == values # params

NoSession == [project |-> UNDEF]

\* JSON.parse of the text a call returned: the export's object, or a SyntaxError
ParseText(res) ==
  IF res.type = "text" /\ res.text = "json"
  THEN [valid |-> TRUE, decisions |-> res.rows["decisions"], errors |-> res.rows["errors"],
        context |-> res.rows["context"], learnings |-> res.rows["learnings"],
        session |-> IF res.rows["sessions"] = << >> THEN NoSession
                    ELSE res.rows["sessions"][1]]
  ELSE [valid |-> FALSE, decisions |-> << >>, errors |-> << >>, context |-> << >>,
        learnings |-> << >>, session |-> NoSession]

\* case "export_memory"
export_memory(args) ==
  LET keep(r) == args.include_archived \/ Live(r)
      data == [decisions |-> Scan({r \in decisions : SqlEq(r.project, args.project) /\ keep(r)}),
               errors |-> Scan({r \in errors : SqlEq(r.project, args.project) /\ keep(r)}),
               context |-> Scan({r \in context : SqlEq(r.project, args.project)}),
               learnings |-> Scan({r \in learnings : SqlEq(r.project, args.project) /\ keep(r)}),
               sessions |-> getAllSessionsForProject(args.project)]
  IN /\ UNCHANGED <<store, config, firestoreSync, pending, schema, zone, cloud, now>>
     /\ trace' = [trace EXCEPT !.push = NoPush, !.stage = "exported",
                               !.exported = [project |-> args.project,
                                             decisions |-> Range(data.decisions),
                                             errors |-> Range(data.errors),
                                             context |-> Range(data.context),
                                             learnings |-> Range(data.learnings)]]
     /\ result' = Handler("export_memory", args,
                    IF ~getSessionDefined THEN Thrown("getSession is not defined")
                    ELSE Returned("json", << >>, data))

\* One pass of "for (const x of items) { try { insert.run(...) ; n++ } catch {} }".
\* A pass carries [rows, seq, n, threw]: the table, its AUTOINCREMENT mark, the rows
\* counted, and whether an exception left the loop.
Pass(rows, seq) == [rows |-> rows, seq |-> seq, n |-> 0, threw |-> FALSE]

RECURSIVE InsertDecisions(_, _, _)
InsertDecisions(st, items, values) ==
  IF items = << >> THEN st
  ELSE LET d == Head(items)
           fails == \/ RunThrows(InsertDecisionParams, values)
                    \/ Missing(d.project) \/ d.date = NoDate \/ MissingText(d.decision)
           row == insertDecision(st.seq + 1, d.project, d.date, d.decision,
                                 IF MissingText(d.rationale) THEN NullText ELSE d.rationale, NULL)
       IN InsertDecisions(IF fails THEN st
                          ELSE [st EXCEPT !.rows = @ \cup {row}, !.seq = @ + 1, !.n = @ + 1],
                          Tail(items), values)

RECURSIVE InsertErrors(_, _, _)
InsertErrors(st, items, values) ==
  IF items = << >> THEN st
  ELSE LET e == Head(items)
           fails == \/ RunThrows(InsertErrorParams, values)
                    \/ Missing(e.project) \/ MissingText(e.error_pattern) \/ MissingText(e.solution)
           row == insertError(st.seq + 1, e.project, e.error_pattern, e.solution,
                             IF MissingText(e.context) THEN NullText ELSE e.context, NULL)
       IN InsertErrors(IF fails THEN st
                       ELSE [st EXCEPT !.rows = @ \cup {row}, !.seq = @ + 1, !.n = @ + 1],
                       Tail(items), values)

RECURSIVE InsertLearnings(_, _)
InsertLearnings(st, items) ==
  IF items = << >> THEN st
  ELSE LET l == Head(items)
           fails == Missing(l.category) \/ MissingText(l.content)
           row == insertLearning(st.seq + 1, IF l.project = UNDEF THEN NULL ELSE l.project,
                                 l.category, l.content)
       IN InsertLearnings(IF fails THEN st
                          ELSE [st EXCEPT !.rows = @ \cup {row}, !.seq = @ + 1, !.n = @ + 1],
                          Tail(items))

\* "for (const c of items) { upsertContext.run(...); n++ }": guarded is TRUE where the
\* call sits in a try of its own (pull_from_cloud), FALSE where it does not (import_memory)
RECURSIVE UpsertContexts(_, _, _)
UpsertContexts(st, items, guarded) ==
  IF items = << >> \/ st.threw THEN st
  ELSE LET c == Head(items)
           fails == upsertContextThrows(c.project, c.key, c.value)
           done == [st EXCEPT !.rows = upsertContext(@, st.seq + 1, c.project, c.key, c.value),
                              !.seq = @ + 1,
                              !.n = @ + 1]
       IN UpsertContexts(IF ~fails THEN done
                         ELSE IF guarded THEN st
                         ELSE [st EXCEPT !.threw = TRUE],
                         Tail(items), guarded)

\* trace.lastPut after the context rows of a pass were written (those before the throw)
RECURSIVE PutAll(_, _, _)
PutAll(f, items, guarded) ==
  IF items = << >> THEN f
  ELSE LET c == Head(items)
           fails == upsertContextThrows(c.project, c.key, c.value)
       IN IF fails
          THEN (IF guarded THEN PutAll(f, Tail(items), guarded) ELSE f)
          ELSE PutAll(IF KnownKey(c.project, c.key) THEN Put(f, c.project, c.key, c.value) ELSE f,
                      Tail(items), guarded)

\* case "import_memory": args.json_data parsed is the record data; data.valid = FALSE is
\* a text JSON.parse rejects.
import_memory(args) ==
  LET data == args.json_data
      d == InsertDecisions(Pass(decisions, sqlite_sequence["decisions"]), data.decisions,
                           ImportDecisionValues)
      e == InsertErrors(Pass(errors, sqlite_sequence["errors"]), data.errors, ImportErrorValues)
      c == UpsertContexts(Pass(context, sqlite_sequence["context"]), data.context, FALSE)
      l == IF c.threw THEN Pass(learnings, sqlite_sequence["learnings"])
           ELSE InsertLearnings(Pass(learnings, sqlite_sequence["learnings"]), data.learnings)
      sessionThrows == data.session # NoSession /\ ~upsertSessionDefined
      stage == IF trace.stage = "empty" /\ result.tool = "export_memory"
                  /\ data = ParseText(result)
               THEN "imported" ELSE ""
      kept == IF stage = "imported" THEN trace.exported ELSE NoExport
      s == IF c.threw \/ data.session = NoSession \/ sessionThrows
           THEN Pass(sessions, sqlite_sequence["sessions"])
           ELSE LET id == sqlite_sequence["sessions"] + 1
                IN [rows |-> upsertSessionWithWorkspace(sessions, id, data.session.project, NULL,
                               data.session.task, data.session.status, data.session.notes),
                    seq |-> id, n |-> 1, threw |-> FALSE]
  IN /\ UNCHANGED <<config, firestoreSync, pending, schema, zone, cloud, now>>
     /\ IF ~data.valid
        THEN /\ UNCHANGED store
             /\ trace' = [Trace(NoPush) EXCEPT !.stage = stage, !.exported = kept]
             /\ result' = Handler("import_memory", args,
                            Returned("Import failed: ", <<"Unexpected token">>, NoRows))
        ELSE /\ d.seq + e.seq + c.seq + l.seq + s.seq <= MaxRows
             /\ decisions' = d.rows
             /\ errors' = e.rows
             /\ context' = c.rows
             /\ learnings' = l.rows
             /\ sessions' = s.rows
             /\ sqlite_sequence' = [decisions |-> d.seq, errors |-> e.seq, context |-> c.seq,
                                    learnings |-> l.seq, sessions |-> s.seq]
             /\ trace' = [Trace(NoPush) EXCEPT !.stage = stage, !.exported = kept,
                                       !.lastPut = PutAll(@, data.context, FALSE)]
             /\ result' = Handler("import_memory", args,
                            IF c.threw
                            THEN Returned("Import failed: ", <<"NOT NULL constraint failed">>, NoRows)
                            ELSE IF sessionThrows
                            THEN Returned("Import failed: ", <<"upsertSession is not defined">>, NoRows)
                            ELSE Returned("Imported: ", <<d.n, e.n, c.n, l.n>>, NoRows))

\* ------------------------------------------------------------ cloud sync
\* a write from its await on: the push has settled, whatever came of it, and the case
\* returns its text
return_push(p, transportFails) ==
  LET push == p.push
  IN /\ p \in pending
     /\ p.at = "push"
     /\ cloud' = syncToCloud(cloud, push.table, push.docId, push.rowid, push.data,
                             push.calledAt, push.hasUndefined, transportFails)
     /\ result' = Handler(p.tool, p.args,
                          AfterPush(push.hasUndefined, transportFails, push.success))
     /\ trace' = Trace(PushState(TRUE, push.hasUndefined \/ transportFails))
     /\ pending' = pending \ {p}
     /\ UNCHANGED <<store, config, firestoreSync, schema, zone, now>>

\* const tables = ["decisions", "errors", "context", "learnings", "sessions"]
PullOrder == <<"decisions", "errors", "context", "learnings", "sessions">>
After(table) == PullOrder[(CHOOSE i \in 1..4 : PullOrder[i] = table) + 1]
TableIndex(table) == CHOOSE i \in 1..5 : PullOrder[i] = table

AllRows == [decisions |-> decisions, errors |-> errors, context |-> context,
            learnings |-> learnings, sessions |-> sessions]

\* the rows of sync_to_cloud's "SELECT * FROM ${table} [WHERE project = ?]"
SyncRows(rows, project) == Scan({r \in rows : project = "all" \/ SqlEq(r.project, project)})

\* syncToCloud(table, row): a row is its own document data
PushedRow(table, r) ==
  Pushed(table, DocId(r.project, ToString(r.id)), r.id, [r EXCEPT !.id = ToString(r.id)],
         FALSE, NoPushed.success)

\* the first table from the i-th on whose query returns a row, 6 when there is none
RECURSIVE FirstWithRows(_, _)
FirstWithRows(i, project) ==
  IF i > 5 THEN 6
  ELSE IF SyncRows(AllRows[PullOrder[i]], project) # << >> THEN i
  ELSE FirstWithRows(i + 1, project)

\* sync_to_cloud's loops from the i-th table on, run until the next await: the call n
\* suspends at the push of the first row there is, or returns its count; others are the
\* other suspended calls
SyncFrom(others, n, args, i, synced) ==
  LET j == FirstWithRows(i, args.project)
      rows == SyncRows(AllRows[PullOrder[j]], args.project)
  IN IF j > 5
     THEN /\ pending' = others
          /\ result' = Handler("sync_to_cloud", args,
                               Returned("Synced records to Firestore", <<synced>>, NoRows))
     ELSE /\ Cardinality(others) < MaxCalls
          /\ pending' = others \cup {Suspended(n, "sync_to_cloud", args, PullOrder[j], synced,
                                               Tail(rows), PushedRow(PullOrder[j], Head(rows)))}
          /\ result' = NoResult

\* case "sync_to_cloud", up to its first await
sync_to_cloud(args) ==
  /\ UNCHANGED <<store, config, firestoreSync, schema, zone, cloud, now>>
  /\ trace' = Trace(NoPush)
  /\ IF ~firestoreSync
     THEN /\ UNCHANGED pending
          /\ result' = Handler("sync_to_cloud", args,
                               Returned("Firestore sync not enabled", << >>, NoRows))
     ELSE SyncFrom(pending, FreeNumber, args, 1, 0)

\* sync_to_cloud from one await to the next: the push of a row has settled and is counted,
\* then the next row of the table is pushed, or the next table is read; raises is a
\* database that raises by now (the file is locked, the disk is full): the SELECT of the
\* next table throws, the handler's catch answers and the call is over. After the last
\* table, and while rows of the table read before remain, no statement runs.
resume_sync_to_cloud(p, transportFails, raises) ==
  LET push == p.push
  IN /\ p \in pending
     /\ p.tool = "sync_to_cloud"
     /\ cloud' = syncToCloud(cloud, push.table, push.docId, push.rowid, push.data,
                             push.calledAt, FALSE, transportFails)
     /\ trace' = Trace(PushState(TRUE, transportFails))
     /\ IF p.queue # << >>
        THEN /\ pending' = (pending \ {p})
                             \cup {[p EXCEPT !.pulled = @ + 1, !.queue = Tail(@),
                                             !.push = PushedRow(p.at, Head(p.queue))]}
             /\ result' = NoResult
        ELSE IF raises /\ TableIndex(p.at) < 5
        THEN /\ pending' = pending \ {p}
             /\ result' = Handler("sync_to_cloud", p.args, Thrown("SQLITE_BUSY"))
        ELSE SyncFrom(pending \ {p}, p.n, p.args, TableIndex(p.at) + 1, p.pulled + 1)
     /\ UNCHANGED <<store, config, firestoreSync, schema, zone, now>>

\* case "pull_from_cloud", up to its first await firestoreSync.pullFromCloud(table, project)
pull_from_cloud(args) ==
  /\ UNCHANGED <<store, config, firestoreSync, schema, zone, cloud, now>>
  /\ trace' = Trace(NoPush)
  /\ IF ~firestoreSync
     THEN /\ UNCHANGED pending
          /\ result' = Handler("pull_from_cloud", args,
                               Returned("Firestore sync not enabled", << >>, NoRows))
     ELSE /\ Cardinality(pending) < MaxCalls
          /\ pending' = pending \cup {Suspended(FreeNumber, "pull_from_cloud", args,
                                                "decisions", 0, << >>, NoPushed)}
          /\ result' = NoResult

\* pull_from_cloud from one await to the next: the records of one collection have arrived
\* (none when the pull failed) and are written to their table, then the next collection is
\* asked for or the text returned; a database that raises at every write leaves what a
\* failed pull leaves, each record being skipped in its try
resume_pull_from_cloud(p, fails) ==
  LET args == p.args
      table == p.at
      records == IF fails THEN << >> ELSE pullFromCloud(table, args.project)
      d == InsertDecisions(Pass(decisions, sqlite_sequence["decisions"]), records,
                           ImportDecisionValues)
      e == InsertErrors(Pass(errors, sqlite_sequence["errors"]), records, ImportErrorValues)
      c == UpsertContexts(Pass(context, sqlite_sequence["context"]), records, TRUE)
      l == InsertLearnings(Pass(learnings, sqlite_sequence["learnings"]), records)
      n == CASE table = "decisions" -> d.n
             [] table = "errors" -> e.n
             [] table = "context" -> c.n
             [] table = "learnings" -> l.n
             [] table = "sessions" -> IF upsertSessionDefined THEN Len(records) ELSE 0
  IN /\ p \in pending
     /\ p.tool = "pull_from_cloud"
     /\ RowsInserted + Len(records) <= MaxRows
     /\ decisions' = IF table = "decisions" THEN d.rows ELSE decisions
     /\ errors' = IF table = "errors" THEN e.rows ELSE errors
     /\ context' = IF table = "context" THEN c.rows ELSE context
     /\ learnings' = IF table = "learnings" THEN l.rows ELSE learnings
     /\ sqlite_sequence' =
          CASE table = "decisions" -> [sqlite_sequence EXCEPT !["decisions"] = d.seq]
            [] table = "errors" -> [sqlite_sequence EXCEPT !["errors"] = e.seq]
            [] table = "context" -> [sqlite_sequence EXCEPT !["context"] = c.seq]
            [] table = "learnings" -> [sqlite_sequence EXCEPT !["learnings"] = l.seq]
            [] table = "sessions" -> sqlite_sequence
     /\ IF table = "sessions"
        THEN /\ pending' = pending \ {p}
             /\ result' = Handler("pull_from_cloud", args,
                            Returned("Pulled records from Firestore", <<p.pulled + n>>, NoRows))
             /\ trace' = Trace(NoPush)
        ELSE /\ pending' = (pending \ {p})
                             \cup {[p EXCEPT !.at = After(table), !.pulled = @ + n]}
             /\ result' = NoResult
             /\ trace' = IF table = "context"
                         THEN [trace EXCEPT !.lastPut = PutAll(@, records, TRUE)] ELSE trace
     /\ UNCHANGED <<sessions, config, firestoreSync, schema, zone, cloud, now>>

\* --------------------------------------------------------- summary reads
\* the characters of a context key or value, for LIKE
Chars(v) == [i \in 1..Len(v) |-> SubSeq(v, i, i)]

\* SELECT key, value FROM context WHERE project = ? AND (key LIKE ? OR value LIKE ?)
searchContext(project, pattern) ==
  Scan({r \in context : /\ SqlEq(r.project, project)
                        /\ (Like(Chars(r.key), pattern) \/ Like(Chars(r.value), pattern))})

\* case "search_all"
search_all(args) ==
  LET pattern == Pattern(args.query)
      found == [decisions |-> searchDecisions(args.project, pattern, pattern),
                errors |-> findSolution(args.project, pattern),
                learnings |-> searchLearnings(args.project, pattern),
                context |-> searchContext(args.project, pattern),
                sessions |-> << >>]
  IN /\ UNCHANGED <<store, config, firestoreSync, pending, schema, zone, cloud, now>>
     /\ trace' = Trace(NoPush)
     /\ result' = Handler("search_all", args,
                    Returned(IF found = NoRows THEN "No results found for " ELSE "",
                             << >>, found))

\* [...learnings, ...globalLearnings.filter(g => !learnings.find(l => l.id === g.id))]
MergeLearnings(projectLearnings, globalLearnings) ==
  projectLearnings \o SelectSeq(globalLearnings, LAMBDA g : g.id \notin Ids(projectLearnings))

\* SELECT COUNT(*) ... WHERE project = ? AND (archived IS NULL OR archived = 0)
CountLive(rows, project) == Cardinality({r \in rows : SqlEq(r.project, project) /\ Live(r)})
CountLiveLearnings(project) ==
  Cardinality({r \in learnings : (SqlEq(r.project, project) \/ r.project = NULL) /\ Live(r)})

\* case "memory_status"
memory_status(args) ==
  LET contextItems == getContext(args.project)
      found == [sessions |-> getAllSessionsForProject(args.project),
                context |-> contextItems,
                decisions |-> getDecisions(args.project, 5),
                learnings |-> Limit(MergeLearnings(getLearnings(args.project, 5),
                                                   getGlobalLearnings(5)), 5),
                errors |-> getRecentErrors(args.project, 3)]
      stats == <<CountLive(decisions, args.project), CountLive(errors, args.project),
                 CountLiveLearnings(args.project), Len(contextItems)>>
  IN /\ UNCHANGED <<store, config, firestoreSync, pending, schema, zone, cloud, now>>
     /\ trace' = Trace(NoPush)
     /\ result' = Handler("memory_status", args, Returned("# Memory Status for ", stats, found))

\* new Date('YYYY-MM-DD HH:MM:SS'): the text, which CURRENT_TIMESTAMP wrote in UTC, is read
\* as a time of the process's zone
ParseLocal(text) == text[1] * TicksPerDay + text[3] - zone

HotCount == 5
HotDays == 7
WarmCount == 2
WarmDays == 30

\* const getTier = (item) => ...; daysSinceAccess is Infinity without last_accessed
getTier(item) ==
  LET accessCount == item.access_count
      accessed == item.last_accessed # NoTime
      sinceAccess == now - ParseLocal(SqlText(item.last_accessed))
  IN IF accessCount >= HotCount \/ (accessed /\ sinceAccess <= HotDays * TicksPerDay)
     THEN "hot"
     ELSE IF accessCount >= WarmCount \/ (accessed /\ sinceAccess <= WarmDays * TicksPerDay)
     THEN "warm"
     ELSE "cold"

Tiers(rows) == [i \in 1..Len(rows) |-> getTier(rows[i])]

DECISION_LIMIT == 30
LEARNING_LIMIT == 50
ERROR_LIMIT == 15
GlobalLearningLimit == 20

\* case "load_comprehensive_memory"; include_global is FALSE only for the argument false
load_comprehensive_memory(args) ==
  LET includeGlobal == args.include_global
      contextItems == getContext(args.project)
      globalContext == IF includeGlobal THEN getContext("global") ELSE << >>
      globalLearnings == IF includeGlobal THEN getGlobalLearnings(GlobalLearningLimit) ELSE << >>
      found == [sessions |-> getAllSessionsForProject(args.project),
                context |-> globalContext \o contextItems,
                decisions |-> getDecisions(args.project, DECISION_LIMIT),
                learnings |-> MergeLearnings(getLearnings(args.project, LEARNING_LIMIT),
                                             globalLearnings),
                errors |-> getRecentErrors(args.project, ERROR_LIMIT)]
      tiers == [decisions |-> Tiers(found.decisions), learnings |-> Tiers(found.learnings),
                errors |-> Tiers(found.errors)]
      stats == <<CountLive(decisions, args.project), CountLive(errors, args.project),
                 CountLiveLearnings(args.project), Len(contextItems), tiers>>
  IN /\ UNCHANGED <<store, config, firestoreSync, pending, schema, zone, cloud, now>>
     /\ trace' = Trace(NoPush)
     /\ result' = Handler("load_comprehensive_memory", args,
                    Returned("# Comprehensive Memory for ", stats, found))

\* request.params without arguments: args is undefined
NoArguments == [arguments |-> UNDEF]

\* case "memory_stats" up to "const { statSync } = await import("fs")": the call suspends at
\* the await, with the mirror or without it, before it has read its arguments or the store
memory_stats(args) ==
  /\ UNCHANGED <<store, config, firestoreSync, schema, zone, cloud, now>>
  /\ trace' = Trace(NoPush)
  /\ Cardinality(pending) < MaxCalls
  /\ pending' = pending \cup {Suspended(FreeNumber, "memory_stats", args, "fs", 0, << >>,
                                         NoPushed)}
  /\ result' = NoResult

\* memory_stats from its await on: the size of the file is read in a try of its own, then
\* the counts of one project (args.project given) or of all rows, from the store as it is
\* now; args.project of undefined throws, and fails is a database that raises at the
\* first COUNT
resume_memory_stats(p, fails) ==
  LET args == p.args
      of(rows) == IF Falsy(args.project) THEN rows
                 ELSE {r \in rows : SqlEq(r.project, args.project)}
      stats == <<Cardinality(of(decisions)), Cardinality(of(errors)),
                 Cardinality(of(learnings)), Cardinality(of(context)),
                 Cardinality({r \in of(decisions) : r.archived = 1})
                 + Cardinality({r \in of(errors) : r.archived = 1})
                 + Cardinality({r \in of(learnings) : r.archived = 1})>>
  IN /\ p \in pending
     /\ p.tool = "memory_stats"
     /\ pending' = pending \ {p}
     /\ UNCHANGED <<store, config, firestoreSync, schema, zone, cloud, now>>
     /\ trace' = Trace(NoPush)
     /\ result' = Handler("memory_stats", args,
                    IF args = NoArguments
                    THEN Thrown("Cannot read properties of undefined")
                    ELSE IF fails THEN Thrown("SQLITE_FULL")
                    ELSE Returned("# Memory Statistics", stats, NoRows))

\* ---------------------------------------------------------- bulk_cleanup
NoNumber == 0 - 999     \* a number argument that is undefined

\* the statement without the archived = 1 condition
Cleaned_anyState(rows, cutoffDate, archivedOnly, project) ==
  {r \in rows : /\ TextLess(SqlText(r.created_at), cutoffDate)
                /\ (project # "all" => SqlEq(r.project, project))}
\* DELETE FROM ${table} WHERE created_at < ? [AND archived = 1] [AND project = ?]
Cleaned(rows, cutoffDate, archivedOnly, project) ==
  {r \in rows : /\ TextLess(SqlText(r.created_at), cutoffDate)
                /\ (archivedOnly => r.archived = 1)
                /\ (project # "all" => SqlEq(r.project, project))}

\* case "bulk_cleanup"; archived_only is FALSE only for the argument false
bulk_cleanup(args) ==
  LET days == args.older_than_days
      archivedOnly == args.archived_only
      typeFilter == OrElse(args.type, "all")
      cutoffDate == IsoText(now - days * TicksPerDay)
      tables == IF typeFilter = "all" THEN Tables ELSE {typeFilter} \cap Tables
      gone == [t \in Tables |-> IF t \in tables
                                THEN Cleaned(TableRows(t), cutoffDate, archivedOnly, args.project)
                                ELSE {}]
      totalDeleted == Cardinality(gone["decisions"]) + Cardinality(gone["errors"])
                      + Cardinality(gone["learnings"])
  IN /\ UNCHANGED <<context, sessions, sqlite_sequence, config, firestoreSync, pending, schema, zone, cloud, now>>
     /\ trace' = Trace(NoPush)
     /\ IF days = NoNumber
        THEN /\ UNCHANGED <<decisions, errors, learnings>>
             /\ result' = Handler("bulk_cleanup", args, Thrown("Invalid time value"))
        ELSE /\ decisions' = decisions \ gone["decisions"]
             /\ errors' = errors \ gone["errors"]
             /\ learnings' = learnings \ gone["learnings"]
             /\ result' = Handler("bulk_cleanup", args,
                            Returned("Deleted ", <<totalDeleted, days>>, NoRows))

\* ------------------------------------------------------- the other cases
\* default: of the switch
unknown_tool(name) ==
  /\ UNCHANGED <<store, config, firestoreSync, pending, schema, zone, cloud, now>>
  /\ trace' = Trace(NoPush)
  /\ result' = Handler(name, [name |-> name], Returned("Unknown tool: ", <<name>>, NoRows))

ToolNames == {"remember_decision", "recall_decisions", "list_decisions", "remember_error",
              "find_solution", "set_context", "get_context", "remember_learning",
              "recall_learnings", "delete_context", "list_errors", "search_all",
              "save_session", "get_session", "clear_session", "memory_status",
              "load_comprehensive_memory", "archive", "set_priority", "prune",
              "export_memory", "import_memory", "memory_stats", "bulk_cleanup",
              "sync_to_cloud", "pull_from_cloud"}

\* ListToolsRequestSchema handler: the tool list; the two sync tools only with the mirror
syncTools == IF firestoreSync THEN {"sync_to_cloud", "pull_from_cloud"} ELSE {}

list_tools ==
  /\ UNCHANGED <<store, config, firestoreSync, pending, schema, zone, cloud, now>>
  /\ trace' = Trace(NoPush)
  /\ result' = [tool |-> "tools/list", args |-> << >>, type |-> "text", text |-> "",
                detail |-> <<(ToolNames \ {"sync_to_cloud", "pull_from_cloud"})
                             \cup syncTools>>,
                rows |-> NoRows]

\* A call during which the database raises at every statement (the file is locked, the
\* disk is full), with arguments with which the case reaches a statement: nothing is
\* written. The SqliteError reaches the handler's catch, but for import_memory, which skips
\* the rows of decisions, errors and learnings in their try and ends in its own catch at
\* the first context row or at the session, and for the two sync tools, which return before
\* any statement when the mirror is off. memory_stats, and pull_from_cloud with the
\* mirror, reach their first statement after an await: resume_memory_stats,
\* resume_pull_from_cloud.
storage_fault(name, args) ==
  LET data == args.json_data
  IN /\ name # "memory_stats"
     /\ name = "pull_from_cloud" => ~firestoreSync
     /\ UNCHANGED <<store, config, firestoreSync, pending, schema, zone, cloud, now>>
     /\ trace' = Trace(NoPush)
     /\ result' = Handler(name, args,
                    CASE name \in {"sync_to_cloud", "pull_from_cloud"} /\ ~firestoreSync ->
                           Returned("Firestore sync not enabled", << >>, NoRows)
                      [] name = "import_memory" /\ ~data.valid ->
                           Returned("Import failed: ", <<"Unexpected token">>, NoRows)
                      [] name = "import_memory" /\ data.valid /\ data.context # << >> ->
                           Returned("Import failed: ", <<"SQLITE_FULL">>, NoRows)
                      [] name = "import_memory" /\ data.valid /\ data.context = << >>
                           /\ data.session # NoSession ->
                           Returned("Import failed: ",
                                    <<IF upsertSessionDefined THEN "SQLITE_FULL"
                                      ELSE "upsertSession is not defined">>, NoRows)
                      [] name = "import_memory" /\ data.valid /\ data.context = << >>
                           /\ data.session = NoSession ->
                           Returned("Imported: ", <<0, 0, 0, 0>>, NoRows)
                      [] OTHER -> Thrown("SQLITE_FULL"))

\* A call without arguments: args is undefined, and the first args.x of the case throws a
\* TypeError inside the try. import_memory reads args.json_data inside its own try, the
\* two sync tools return before reading args when the mirror is off, and memory_stats
\* reads args.project after its await.
no_arguments(name) ==
  IF name = "memory_stats"
  THEN memory_stats(NoArguments)
  ELSE /\ UNCHANGED <<store, config, firestoreSync, pending, schema, zone, cloud, now>>
       /\ trace' = Trace(NoPush)
       /\ result' = Handler(name, NoArguments,
                      CASE name \in {"sync_to_cloud", "pull_from_cloud"} /\ ~firestoreSync ->
                             Returned("Firestore sync not enabled", << >>, NoRows)
                        [] name = "import_memory" ->
                             Returned("Import failed: ",
                                      <<"Cannot read properties of undefined">>, NoRows)
                        [] OTHER -> Thrown("Cannot read properties of undefined"))

\* time passes between two calls
Tick ==
  /\ now < MaxNow
  /\ now' = now + 1
  /\ UNCHANGED <<store, config, firestoreSync, pending, schema, zone, cloud, result, trace>>

\* ------------------------------------------------------- configuration
\* ~/.claude/memory-config.json: "absent", "broken" (not JSON), "null" (the JSON value
\* null) or "present" with the given firestore.enabled
ConfigFile(state, enabled, machineId) ==
  [state |-> state, enabled |-> enabled, machineId |-> machineId]
NoConfigFile == ConfigFile("absent", FALSE, UNDEF)

\* loadConfig(): {} unless the file exists and parses, what it parses to when it does; of
\* the configuration the model keeps whether it is null, config.firestore?.enabled and
\* config.machineId
loadConfig(file) ==
  [isNull |-> file.state = "null",
   firestore |-> [enabled |-> file.state = "present" /\ file.enabled],
   machineId |-> IF file.state = "present" THEN file.machineId ELSE UNDEF]

\* main(): config.firestore?.enabled of null throws in initFirestoreSync(), main() rejects,
\* the rejection is logged and server.connect(transport) is not reached: no request is
\* ever handled
Connected == ~config.isNull

\* the client is built whatever the configuration says
initFirestoreSync_unconfigured(clientBuilds) == clientBuilds
\* initFirestoreSync(): null when sync is not enabled, null when importing the package or
\* constructing the client throws, the mirror otherwise; firestoreSync stays null when the
\* configuration is null and the function throws
initFirestoreSync(clientBuilds) ==
  IF config.isNull \/ ~config.firestore.enabled THEN FALSE
  ELSE clientBuilds

\* ------------------------------------------------- the schema and its migrations
\* The columns that differ between the revisions of the schema; "id" stands for the
\* columns every revision has, and a table without columns does not exist.
\* CREATE TABLE IF NOT EXISTS decisions / errors / context / learnings / sessions
CreatedSchema ==
  [decisions |-> {"id", "synced_at", "archived"},
   errors |-> {"id", "synced_at", "archived"},
   context |-> {"id", "synced_at"},
   learnings |-> {"id", "synced_at", "archived"},
   sessions |-> {"id", "synced_at", "workspace"},
   sessions_new |-> {}]

TrackedColumns == {"archived", "priority", "access_count", "last_accessed"}

\* the schema after the ALTER TABLE statements and the sessions migration
MigratedSchema ==
  [decisions |-> CreatedSchema.decisions \cup TrackedColumns \cup {"category"},
   errors |-> CreatedSchema.errors \cup TrackedColumns \cup {"category"},
   context |-> CreatedSchema.context,
   learnings |-> CreatedSchema.learnings \cup TrackedColumns,
   sessions |-> CreatedSchema.sessions,
   sessions_new |-> {}]

\* the database file as the statements of the startup see and change it
Database ==
  [schema |-> schema, decisions |-> decisions, errors |-> errors, context |-> context,
   learnings |-> learnings, sessions |-> sessions, sqlite_sequence |-> sqlite_sequence,
   log |-> ""]

\* db.exec(`CREATE TABLE IF NOT EXISTS ...`) for the five tables
CreateTables(db) ==
  [db EXCEPT !.schema = [t \in DOMAIN @ |-> IF @[t] = {} /\ t # "sessions_new"
                                           THEN CreatedSchema[t] ELSE @[t]]]

\* a row with one more column
Extend(r, column, default) ==
  [f \in DOMAIN r \cup {column} |-> IF f = column THEN default ELSE r[f]]

\* try { db.exec(`ALTER TABLE t ADD COLUMN c ... DEFAULT d`) } catch (e) { }
AddColumn(db, table, column, default) ==
  IF column \in db.schema[table]
  THEN db
  ELSE [db EXCEPT !.schema[table] = @ \cup {column},
                  ![table] = {Extend(r, column, default) : r \in @}]

\* the ALTER TABLE statements in the order of the source
Alters ==
  << <<"decisions", "archived", 0>>, <<"errors", "archived", 0>>,
     <<"learnings", "archived", 0>>,
     <<"decisions", "priority", 0>>, <<"errors", "priority", 0>>,
     <<"learnings", "priority", 0>>,
     <<"decisions", "category", NULL>>, <<"errors", "category", NULL>>,
     <<"decisions", "access_count", 0>>, <<"decisions", "last_accessed", NoTime>>,
     <<"errors", "access_count", 0>>, <<"errors", "last_accessed", NoTime>>,
     <<"learnings", "access_count", 0>>, <<"learnings", "last_accessed", NoTime>> >>

RECURSIVE AddColumns(_, _)
AddColumns(db, i) ==
  IF i > Len(Alters)
  THEN db
  ELSE AddColumns(AddColumn(db, Alters[i][1], Alters[i][2], Alters[i][3]), i + 1)

\* the rebuild runs although the table has the column
hasWorkspace_missed(db) == FALSE
\* tableInfo.some(col => col.name === 'workspace')
hasWorkspace(db) == "workspace" \in db.schema["sessions"]

MaxId(rows) == IF rows = {} THEN 0 ELSE CHOOSE n \in {r.id : r \in rows} :
                                          \A r \in rows : r.id <= n

\* Migration for multi-workspace support; the statements of the one db.exec run in
\* order and the ones before a failing statement stay applied
sessionsMigration(db) ==
  IF hasWorkspace(db)
  THEN db
  ELSE IF db.schema["sessions_new"] # {}
  THEN [db EXCEPT !.log = "Sessions migration error: table sessions_new already exists"]
  ELSE IF "synced_at" \notin db.schema["sessions"]
  THEN [db EXCEPT !.schema["sessions_new"] = CreatedSchema.sessions,
                  !.log = "Sessions migration error: no such column: synced_at"]
  ELSE [db EXCEPT !.schema["sessions"] = CreatedSchema.sessions,
                  !.sessions = {Extend(r, "workspace", NULL) : r \in @},
                  !.sqlite_sequence["sessions"] = MaxId(db.sessions),
                  !.log = "Migrated sessions table to support multi-workspace"]

\* db.prepare(...) of the statements: every column they name exists
Prepared(columns) ==
  /\ \A t \in Tables : TrackedColumns \subseteq columns[t]
  /\ "category" \in columns["decisions"] /\ "category" \in columns["errors"]
  /\ "workspace" \in columns["sessions"]

\* ------------------------------------------------------------------ Init
\* new Database(dbPath) on a file that does not exist yet, then CREATE TABLE IF NOT EXISTS
EmptyStore ==
  /\ decisions = {}
  /\ errors = {}
  /\ context = {}
  /\ learnings = {}
  /\ sessions = {}
  /\ sqlite_sequence = [decisions |-> 0, errors |-> 0, context |-> 0, learnings |-> 0,
                        sessions |-> 0]

NoTrace == [archived |-> {}, push |-> NoPush,
            lastSet |-> [pk \in Projects \X Keys |-> NULL],
            lastPut |-> [pk \in Projects \X Keys |-> NULL],
            stage |-> "", exported |-> NoExport]

InitWith(mirror) ==
  /\ EmptyStore
  /\ config = loadConfig(IF mirror THEN ConfigFile("present", TRUE, UNDEF) ELSE NoConfigFile)
  /\ firestoreSync = initFirestoreSync(mirror)
  /\ schema = MigratedSchema
  /\ zone = 0
  /\ pending = {}
  /\ cloud = {}
  /\ now = 0
  /\ result = NoResult
  /\ trace = NoTrace

\* main(): firestoreSync = await initFirestoreSync(), null unless the mirror is configured
Init == \E mirror \in BOOLEAN : InitWith(mirror)
InitLocal == InitWith(FALSE)
InitMirror == InitWith(TRUE)

\* the module's top-level code up to the prepared statements, run when the process starts
startup ==
  LET db == sessionsMigration(AddColumns(CreateTables(Database), 1))
  IN /\ schema' = db.schema
     /\ decisions' = db.decisions
     /\ errors' = db.errors
     /\ context' = db.context
     /\ learnings' = db.learnings
     /\ sessions' = db.sessions
     /\ sqlite_sequence' = db.sqlite_sequence
     /\ UNCHANGED <<config, firestoreSync, pending, zone, cloud, now>>
     /\ trace' = Trace(NoPush)
     /\ result' = [NoResult EXCEPT !.tool = "(startup)", !.text = db.log,
                     !.type = IF Prepared(db.schema) THEN "text" ELSE "exception"]

\* The process is killed inside the db.exec of the sessions rebuild, after the given number
\* of its statements (CREATE TABLE sessions_new, INSERT ... SELECT, DROP TABLE sessions);
\* no transaction surrounds them, so each statement that ran stays committed. After the
\* DROP the rows are in sessions_new and there is no table sessions.
startup_interrupted(statements) ==
  LET db == AddColumns(CreateTables(Database), 1)
  IN /\ ~hasWorkspace(db)
     /\ db.schema["sessions_new"] = {}
     /\ statements = 1 \/ "synced_at" \in db.schema["sessions"]
     /\ schema' = [db.schema EXCEPT !["sessions_new"] = CreatedSchema.sessions,
                                    !["sessions"] = IF statements = 3 THEN {} ELSE @]
     /\ decisions' = db.decisions
     /\ errors' = db.errors
     /\ context' = db.context
     /\ learnings' = db.learnings
     /\ sessions' = IF statements = 3 THEN {} ELSE db.sessions
     /\ sqlite_sequence' = IF statements = 3
                           THEN [db.sqlite_sequence EXCEPT !["sessions"] = 0]
                           ELSE db.sqlite_sequence
     /\ UNCHANGED <<config, firestoreSync, pending, zone, cloud, now>>
     /\ trace' = Trace(NoPush)
     /\ result' = [NoResult EXCEPT !.tool = "(startup)", !.text = "killed",
                     !.type = "exception"]

\* new Database(dbPath) where there is no file: a database without tables
NoFile ==
  [schema |-> [t \in DOMAIN CreatedSchema |-> {}], decisions |-> {}, errors |-> {},
   context |-> {}, learnings |-> {}, sessions |-> {},
   sqlite_sequence |-> [decisions |-> 0, errors |-> 0, context |-> 0, learnings |-> 0,
                        sessions |-> 0],
   log |-> ""]

\* The server is started where there is no store yet (another machine, a new home
\* directory) by the client that holds the text export_memory has just returned: the
\* module's top-level code creates the tables and brings them to the current schema.
start_on_empty_store ==
  LET db == sessionsMigration(AddColumns(CreateTables(NoFile), 1))
  IN /\ result.tool = "export_memory"
     /\ trace.stage = "exported"
     /\ schema' = db.schema
     /\ decisions' = db.decisions
     /\ errors' = db.errors
     /\ context' = db.context
     /\ learnings' = db.learnings
     /\ sessions' = db.sessions
     /\ sqlite_sequence' = db.sqlite_sequence
     /\ trace' = [trace EXCEPT !.push = NoPush, !.stage = "empty"]
     /\ UNCHANGED <<config, firestoreSync, pending, zone, cloud, now, result>>

\* ------------------------------------------------- arguments of the calls
Ab == <<"a", "b">>
ECONN == <<"E", "b">>

DecisionArgs(projects, dates, texts, rationales, categories) ==
  [project : projects, date : dates, decision : texts, rationale : rationales,
   category : categories]
RecallArgs(projects, searches, categories, limits) ==
  [project : projects, search : searches, category : categories, limit : limits]
ListArgs(projects, limits) == [project : projects, limit : limits]
ErrorArgs(projects, patterns, categories) ==
  [project : projects, error_pattern : patterns, solution : {Ab}, context : {UndefText},
   category : categories]
FindArgs(projects, texts, categories) ==
  [project : projects, error : texts, category : categories]
LearningArgs(projects, contents) ==
  [project : projects, category : {"gotcha"}, content : contents]
RecallLearningArgs(projects, searches, limits) ==
  [project : projects, search : searches, limit : limits]
ArchiveArgs(types, ids) == [type : types, id : ids]
PriorityArgs(types, ids, priorities) == [type : types, id : ids, priority : priorities]
PruneArgs(projects, dayCounts) == [project : projects, days : dayCounts]
ExportArgs(projects) == [project : projects, include_archived : BOOLEAN]
SearchAllArgs(projects, queries) == [project : projects, query : queries]
StatusArgs(projects) == [project : projects]
LoadArgs(projects) == [project : projects, include_global : BOOLEAN]

Types == {"decision", "error", "learning"}

\* ---------------------------------------------------- archived rows (C1)
NextArchive ==
  \/ \E a \in DecisionArgs({"app"}, {NoDate}, {Ab}, {UndefText}, {"api"}) :
       remember_decision(a)
  \/ \E a \in ErrorArgs({"app"}, {ECONN}, {UNDEF}) : remember_error(a)
  \/ \E a \in LearningArgs({UNDEF, "app"}, {Ab}) : remember_learning(a)
  \/ \E a \in ArchiveArgs(Types \cup {"note"}, 1..MaxRows) : archive(a)
  \/ \E a \in PruneArgs({"app"}, {0 - 1}) : prune(a)
  \/ \E a \in RecallArgs({"app"}, {UndefText}, {UNDEF, "api"}, {0})
              \cup RecallArgs({"app"}, {<<"a">>}, {UNDEF}, {1}) : recall_decisions(a)
  \/ \E a \in ListArgs({"app"}, {0}) : list_decisions(a)
  \/ \E a \in FindArgs({"app"}, {<<"e">>}, {UNDEF}) : find_solution(a)
  \/ \E a \in ListArgs({"app"}, {0}) : list_errors(a)
  \/ \E a \in RecallLearningArgs({"app"}, {UndefText, <<"B">>}, {0}) : recall_learnings(a)
  \/ \E a \in SearchAllArgs({"app"}, {<<"b">>}) : search_all(a)
  \/ \E a \in StatusArgs({"app"}) : memory_status(a)
  \/ \E a \in LoadArgs({"app"}) : load_comprehensive_memory(a)
  \/ \E a \in ExportArgs({"app"}) : export_memory(a)

SpecArchive == InitLocal /\ [][NextArchive]_vars

\* the tools whose result holds rows of the store
RecordReads == {"recall_decisions", "list_decisions", "find_solution", "list_errors",
                "recall_learnings", "search_all", "memory_status",
                "load_comprehensive_memory", "export_memory"}
Returns(table) == Range(result.rows[table])
WithArchived == result.tool = "export_memory" /\ result.args.include_archived

\* C1: once archive(type, id) has succeeded on a decision, error or learning, no
\* record-returning read returns the row with that id, whatever its arguments; only
\* export_memory with include_archived = true may.
C1_ArchivedNeverReturned ==
  (result.tool \in RecordReads /\ ~WithArchived) =>
    \A t \in Tables : \A r \in Returns(t) : <<t, r.id>> \notin trace.archived

\* a read returns rows of a table that still stores an archived row of the same project
C1_Witness ==
  /\ result.tool \in {"recall_decisions", "search_all", "memory_status"}
  /\ Returns("decisions") # {}
  /\ \E r \in decisions : r.project = "app" /\ r.archived = 1
                            /\ <<"decisions", r.id>> \in trace.archived

\* ------------------------------------------------ ordering of decisions (C2)
NextDecisions ==
  \/ \E a \in DecisionArgs({"app"}, {1, 2}, {Ab}, {UndefText}, {"api"})
              \cup DecisionArgs({"app"}, {1}, {Ab}, {UndefText}, {UNDEF}) :
       remember_decision(a)
  \/ \E a \in PriorityArgs({"decision"}, 1..MaxRows, {0, 2 * PriorityUnit, 3 * PriorityUnit}) :
       set_priority(a)
  \/ \E a \in ArchiveArgs({"decision"}, {1}) : archive(a)
  \/ \E a \in RecallArgs({"app"}, {UndefText}, {UNDEF}, {2})
              \cup RecallArgs({"app"}, {<<"a">>}, {UNDEF}, {0})
              \cup RecallArgs({"app"}, {UndefText}, {"api"}, {0}) :
       recall_decisions(a)

SpecDecisions == InitLocal /\ [][NextDecisions]_vars

Recalled == result.rows["decisions"]
StoredPriority(id) == (CHOOSE r \in decisions : r.id = id).priority

\* C2: the list recall_decisions returns, with or without search or category, is sorted
\* by priority descending and, at equal priority, by date descending; a row whose stored
\* priority set_priority has raised stands ahead of every returned row of lower priority.
C2_RecallSorted ==
  result.tool = "recall_decisions" =>
    \A i, j \in 1..Len(Recalled) :
      i < j => /\ Recalled[i].priority >= Recalled[j].priority
               /\ Recalled[i].priority = Recalled[j].priority
                    => Recalled[i].date >= Recalled[j].date
               /\ StoredPriority(Recalled[i].id) >= StoredPriority(Recalled[j].id)

\* a recall in which a raised priority puts an older decision ahead of a newer one
C2_Witness ==
  /\ result.tool = "recall_decisions"
  /\ Len(Recalled) >= 2
  /\ Recalled[1].priority > Recalled[2].priority
  /\ Recalled[1].date < Recalled[2].date
  /\ StoredPriority(Recalled[1].id) = 2 * PriorityUnit

\* --------------------------------------------------------- sessions (C3, C8)
SessionArgs(projects, workspaces, tasks, statuses, notes) ==
  [project : projects, workspace : workspaces, task : tasks, status : statuses, notes : notes]
SessionKeyArgs(projects, workspaces) == [project : projects, workspace : workspaces]
ProjectArgs(projects) == [project : projects]

\* a decision as export_memory writes it
DecisionItem == [project |-> "app", date |-> 1, decision |-> Ab, rationale |-> <<"r">>]
\* the parsed json_data of import_memory
ImportData(decisionItems, errorItems, contextItems, learningItems, sessionItems) ==
  [valid : {TRUE}, decisions : decisionItems, errors : errorItems, context : contextItems,
   learnings : learningItems, session : sessionItems]
BadJson == [valid |-> FALSE, decisions |-> << >>, errors |-> << >>, context |-> << >>,
            learnings |-> << >>, session |-> NoSession]
ImportArgs(datas) == [json_data : datas]
ExportedSession == [project |-> "app", task |-> "T1", status |-> "in-progress", notes |-> NULL]

NextSessions ==
  \/ \E a \in SessionArgs({"app", "web"}, {UNDEF, "w1", "w2"}, {"T1"}, {UNDEF}, {UNDEF})
              \cup SessionArgs({"app"}, {"w1"}, {"T1"}, {"done"}, {"n"}) :
       save_session(a)
  \/ \E a \in SessionKeyArgs({"app"}, {UNDEF, "w1", "w2"}) : get_session(a)
  \/ \E a \in SessionKeyArgs({"app", "web"}, {UNDEF, "w1"}) : clear_session(a)
  \/ \E a \in ImportArgs(ImportData({<< >>}, {<< >>}, {<< >>}, {<< >>},
                                     {NoSession, ExportedSession}) \cup {BadJson}) :
       import_memory(a)
  \/ \E a \in ProjectArgs({"app"}) : pull_from_cloud(a)
  \/ \E p \in pending : return_push(p, FALSE)
  \/ \E p \in pending : resume_pull_from_cloud(p, FALSE)

SpecSessions == InitMirror /\ [][NextSessions]_vars

\* C3: the sessions table holds at most one row per (project, workspace) pair, the
\* default workspace (stored as NULL) included.
C3_OneSessionPerPair ==
  \A r, q \in sessions : (r.project = q.project /\ r.workspace = q.workspace) => r = q

SessionKey(r) == <<r.project, r.workspace>>
\* a step in which a call of tool returns (a call leaves the clock alone, the passing of
\* time leaves the result alone, and a call that suspends or goes on to its next await
\* changes the suspended calls)
Called(tool) ==
  result'.tool = tool /\ result'.type = "text" /\ now' = now /\ pending' \subseteq pending

Numbers(calls) == {p.n : p \in calls}
NoCall == [tool |-> "", args |-> << >>]
\* the call whose case runs from its start in this step, as [tool, args]: a call that
\* suspends at its first await, or one that returns without an await; NoCall in a step
\* that is none
Started ==
  IF now' # now THEN NoCall
  ELSE IF \E p \in pending' : p.n \notin Numbers(pending)
  THEN LET p == CHOOSE q \in pending' : q.n \notin Numbers(pending)
       IN [tool |-> p.tool, args |-> p.args]
  ELSE IF pending' = pending THEN [tool |-> result'.tool, args |-> result'.args]
  ELSE NoCall
\* the suspended write that returns in this step, NoCall when none does
Returning ==
  IF \E p \in pending : p.at = "push" /\ p \notin pending'
  THEN LET p == CHOOSE q \in pending : q.at = "push" /\ q \notin pending'
       IN [tool |-> p.tool, args |-> p.args]
  ELSE NoCall

\* C8: save_session(P, w1), in the step that writes its row and in the step that returns
\* after the push, leaves every session of another (project, workspace) as it was; get_session(P) without a workspace returns every session of P; clear_session(P, w1)
\* removes the (P, w1) session and no other.
C8_Step ==
  /\ Started.tool = "save_session" =>
        \A r \in sessions :
          SessionKey(r) # <<Started.args.project, OrElse(Started.args.workspace, NULL)>>
            => r \in sessions'
  /\ Returning.tool = "save_session" => sessions' = sessions
  /\ (Called("get_session") /\ result'.args.workspace = UNDEF) =>
        Range(result'.rows["sessions"]) = {r \in sessions' : r.project = result'.args.project}
  /\ (Called("clear_session") /\ result'.args.workspace # UNDEF) =>
        sessions' = {r \in sessions :
                       SessionKey(r) # <<result'.args.project, result'.args.workspace>>}
C8_WorkspacesIndependent == [][C8_Step]_vars

\* clear_session(app, w1) has removed a session while one of (app, w2) and one of
\* another project are stored
C8_Witness ==
  /\ result.tool = "clear_session"
  /\ result.args = [project |-> "app", workspace |-> "w1"]
  /\ result.text = "Session cleared for "
  /\ \E r \in sessions : r.project = "app" /\ r.workspace = "w2"
  /\ \E r \in sessions : r.project = "web"

\* ------------------------------------------------- export then import (C4)
ContextArgs(projects, keys, values) == [project : projects, key : keys, value : values]

NextRoundTrip ==
  \/ \E a \in DecisionArgs({"app"}, {1}, {Ab}, {<<"r">>}, {"api"}) : remember_decision(a)
  \/ \E a \in ErrorArgs({"app"}, {ECONN}, {UNDEF}) : remember_error(a)
  \/ \E a \in ContextArgs({"app"}, {"k"}, {"v1"}) : set_context(a)
  \/ \E a \in LearningArgs({"app"}, {Ab}) : remember_learning(a)
  \/ \E a \in ExportArgs({"app"}) : export_memory(a)
  \/ start_on_empty_store
  \/ \E a \in ImportArgs({ParseText(result)}) : import_memory(a)

SpecRoundTrip == InitLocal /\ [][NextRoundTrip]_vars

\* the fields of a row other than its surrogate id and its timestamps
Fields(r) == [f \in DOMAIN r \ {"id", "created_at", "updated_at", "last_accessed"} |-> r[f]]
OfProject(rows, project) == {Fields(r) : r \in {x \in rows : x.project = project}}
Exported(rows) == {Fields(r) : r \in rows}

\* C4: export_memory(P) followed by import_memory of the returned text into an empty
\* store yields the exported decisions, errors, context entries and learnings of P,
\* all fields compared but surrogate ids and timestamps.
C4_RoundTrip ==
  (result.tool = "import_memory" /\ trace.stage = "imported") =>
    /\ OfProject(decisions, trace.exported.project) = Exported(trace.exported.decisions)
    /\ OfProject(errors, trace.exported.project) = Exported(trace.exported.errors)
    /\ OfProject(context, trace.exported.project) = Exported(trace.exported.context)
    /\ OfProject(learnings, trace.exported.project) = Exported(trace.exported.learnings)

\* --------------------------------------------------------------- context (C5)
ContextKeyArgs(projects, keys) == [project : projects, key : keys]
ContextItem(project, key, value) == [project |-> project, key |-> key, value |-> value]
ImportedContext == {<<ContextItem("app", "k", "v2")>>,
                    <<ContextItem("app", "j", "v1"), ContextItem("app", "k", UNDEF)>>}

NextContext ==
  \/ \E a \in ContextArgs({"app", "web"}, {"k"}, {"v1", "v2"}) :
       set_context(a)
  \/ \E a \in ContextKeyArgs({"app"}, {"k", "j"}) : get_context(a)
  \/ \E a \in ContextKeyArgs({"app"}, {"k"}) : delete_context(a)
  \/ \E a \in ImportArgs(ImportData({<< >>}, {<< >>}, ImportedContext, {<< >>}, {NoSession})) :
       import_memory(a)
  \/ \E a \in ProjectArgs({"app"}) : pull_from_cloud(a)
  \/ \E p \in pending, transportFails \in BOOLEAN : return_push(p, transportFails)
  \/ \E p \in pending : resume_pull_from_cloud(p, FALSE)

SpecContext == InitMirror /\ [][NextContext]_vars

\* (project, key) holds at most one row, and its value is what written(project, key) tells;
\* get_context(P, k) returns that value
ContextHolds(written) ==
  /\ \A r, q \in context : (r.project = q.project /\ r.key = q.key) => r = q
  /\ \A pk \in Projects \X Keys :
       LET rows == ContextConflict(context, pk[1], pk[2])
       IN IF written[pk] = NULL THEN rows = {}
          ELSE rows # {} /\ \A r \in rows : r.value = written[pk]
  /\ (result.tool = "get_context" /\ KnownKey(result.args.project, result.args.key)) =>
       LET v == written[<<result.args.project, result.args.key>>]
           got == result.rows["context"]
       IN IF v = NULL THEN got = << >> ELSE Len(got) = 1 /\ got[1].value = v

\* C5 as stated: one row per (project, key), and get_context(P, k) returns the value of
\* the latest set_context(P, k, v) not followed by delete_context(P, k).
C5_LatestSetContext == ContextHolds(trace.lastSet)

\* C5: one row per (project, key), and get_context(P, k) returns the value of the latest
\* write of (P, k), by set_context or by a context record of import_memory or
\* pull_from_cloud, not followed by delete_context(P, k).
C5_LatestWrite == ContextHolds(trace.lastPut)

\* get_context returns a value that import_memory or pull_from_cloud wrote after the
\* latest set_context
C5_Witness ==
  /\ result.tool = "get_context"
  /\ result.args = [project |-> "app", key |-> "k"]
  /\ Len(result.rows["context"]) = 1
  /\ result.rows["context"][1].value = trace.lastPut[<<"app", "k">>]
  /\ trace.lastSet[<<"app", "k">>] \notin {NULL, trace.lastPut[<<"app", "k">>]}

\* -------------------------------------------------------------- priority (C6)
\* the priority levels 0, 1, 2 and, off them, -1, 1.5 and 3
Levels == {0, PriorityUnit, 2 * PriorityUnit}
OffLevels == {0 - PriorityUnit, PriorityUnit + 1, 3 * PriorityUnit}

NextPriority ==
  \/ \E a \in DecisionArgs({"app"}, {1}, {Ab}, {UndefText}, {UNDEF}) : remember_decision(a)
  \/ \E a \in ErrorArgs({"app"}, {ECONN}, {UNDEF}) : remember_error(a)
  \/ \E a \in LearningArgs({"app"}, {Ab}) : remember_learning(a)
  \/ \E a \in PriorityArgs(Types \cup {"note"}, 1..2, Levels \cup OffLevels) : set_priority(a)
  \/ \E a \in ListArgs({"app"}, {0}) : list_decisions(a)

SpecPriority == InitLocal /\ [][NextPriority]_vars

\* C6: set_priority with a valid type, an existing id and a level that is not 0, 1 or 2 returns
\* the validation text and stores nothing, so every stored priority is 0, 1 or 2.
C6_PriorityValidated ==
  /\ \A t \in Tables : \A r \in TableRows(t) : r.priority \in Levels
  /\ (result.tool = "set_priority" /\ result.args.type \in Types
       /\ Changes(TableRows(tableMap(result.args.type)), result.args.id) > 0
       /\ result.args.priority \notin Levels) => result.text = "Invalid priority: "

\* ----------------------------------------------------------------- prune (C7)
NextPrune ==
  \/ \E a \in DecisionArgs({"app", "web"}, {1}, {Ab}, {UndefText}, {UNDEF}) :
       remember_decision(a)
  \/ \E a \in ErrorArgs({"app"}, {ECONN}, {UNDEF}) : remember_error(a)
  \/ \E a \in LearningArgs({UNDEF, "app"}, {Ab}) : remember_learning(a)
  \/ \E a \in ContextArgs({"app"}, {"k"}, {"v1"}) : set_context(a)
  \/ \E a \in SessionArgs({"app"}, {"w1"}, {"T1"}, {UNDEF}, {UNDEF}) : save_session(a)
  \/ \E a \in ArchiveArgs(Types, 1..2) : archive(a)
  \/ \E a \in PruneArgs({"app", "all"}, {0, 1, 0 - 1}) : prune(a)
  \/ Tick

SpecPrune == InitLocal /\ [][NextPrune]_vars

\* the rows of the three archivable tables, each with its table
Archivable == {<<"decisions", r>> : r \in decisions}
              \cup {<<"errors", r>> : r \in errors} \cup {<<"learnings", r>> : r \in learnings}

\* C7: a prune step removes only rows that are archived and of the given project (any
\* project for "all"), changes no row that stays and no context or session row, and
\* reports as many rows as it removed.
C7_Step ==
  Called("prune") =>
    /\ Archivable' \subseteq Archivable
    /\ \A x \in Archivable \ Archivable' :
         /\ x[2].archived = 1
         /\ result'.args.project = "all" \/ x[2].project = result'.args.project
    /\ context' = context
    /\ sessions' = sessions
    /\ result'.detail[1] = Cardinality(Archivable \ Archivable')
C7_PruneOnlyArchived == [][C7_Step]_vars

\* prune(app) has removed a row while a live row of app and an archived row of another
\* project stay
C7_Witness ==
  /\ result.tool = "prune"
  /\ result.args.project = "app"
  /\ result.detail[1] > 0
  /\ \E r \in decisions \cup errors \cup learnings : r.project = "app" /\ r.archived = 0
  /\ \E r \in decisions : r.project = "web" /\ r.archived = 1

\* ------------------------------------------------------- mirror pushes (C9)
WriteTools == {"remember_decision", "remember_error", "set_context", "remember_learning",
               "save_session"}

NextMirror ==
  \/ \E a \in DecisionArgs({"app"}, {NoDate}, {Ab}, {UndefText, <<"r">>}, {"api"}) : remember_decision(a)
  \/ \E a \in ErrorArgs({"app"}, {ECONN}, {UNDEF, "api"}) :
       remember_error(a)
  \/ \E a \in ContextArgs({"app"}, {"k"}, {"v1", "v2"}) :
       set_context(a)
  \/ \E a \in LearningArgs({UNDEF, "app"}, {Ab}) :
       remember_learning(a)
  \/ \E a \in SessionArgs({"app"}, {UNDEF, "w1"}, {"T1"}, {UNDEF}, {UNDEF})
              \cup SessionArgs({"app"}, {"w1"}, {"T2"}, {"done"}, {"n"}) : save_session(a)
  \/ \E a \in ListArgs({"app"}, {0}) : list_decisions(a)
  \/ \E p \in pending, transportFails \in BOOLEAN : return_push(p, transportFails)

SpecMirror == InitMirror /\ [][NextMirror]_vars

SuccessText(tool) ==
  CASE tool = "remember_decision" -> "Decision stored for "
    [] tool = "remember_error" -> "Error solution stored for "
    [] tool = "set_context" -> "Context set for "
    [] tool = "remember_learning" -> "Learning stored ("
    [] tool = "save_session" -> "Session saved for "

\* the row a call of tool with the arguments a has just written is in rows (the five
\* tables), under the id seq tells where the table numbers its rows
WrittenIn(rows, seq, tool, a) ==
  CASE tool = "remember_decision" ->
         \E r \in rows.decisions : r.id = seq["decisions"] /\ r.project = a.project
                                    /\ r.decision = a.decision
    [] tool = "remember_error" ->
         \E r \in rows.errors : r.id = seq["errors"] /\ r.project = a.project
                                 /\ r.error_pattern = a.error_pattern /\ r.solution = a.solution
    [] tool = "set_context" ->
         \E r \in rows.context : r.project = a.project /\ r.key = a.key /\ r.value = a.value
    [] tool = "remember_learning" ->
         \E r \in rows.learnings : r.id = seq["learnings"] /\ r.content = a.content
                                    /\ r.project = OrElse(a.project, NULL)
    [] tool = "save_session" ->
         \E r \in rows.sessions : r.project = a.project /\ r.task = a.task
                                   /\ r.workspace = OrElse(a.workspace, NULL)

\* a write that suspends at its push in this step
Suspends(tool) == Started.tool = tool /\ pending' # pending

C9_Step ==
  /\ \A tool \in WriteTools :
       (firestoreSync /\ Suspends(tool)) =>
         WrittenIn(AllRows', sqlite_sequence', tool, Started.args)
  /\ (Returning.tool \in WriteTools /\ trace'.push = "failed") =>
       /\ result'.type = "text"
       /\ result'.text = SuccessText(Returning.tool)
       /\ result'.args = Returning.args
       /\ UNCHANGED store

\* C9: with the mirror active, a write stores its row before its push, and when the push
\* fails the call leaves the local store as it is and returns its normal success text.
C9_PushFailureSwallowed == [][C9_Step]_vars

\* a decision was stored while its push failed in transport, the cloud holding no
\* document of it
C9_Witness ==
  /\ firestoreSync
  /\ result.tool = "remember_decision"
  /\ result.args.rationale = <<"r">>
  /\ trace.push = "failed"
  /\ \A c \in cloud : ~(c.table = "decisions" /\ c.id = sqlite_sequence["decisions"])
  /\ \E c \in cloud : c.table = "context"

\* ------------------------------------------------------ every tool (C10)
CleanupArgs(projects, dayCounts, types) ==
  [project : projects, older_than_days : dayCounts, archived_only : {TRUE}, type : types]

\* one call of any tool, of an unknown tool, without arguments, or met by a storage fault
Next ==
  \/ \E a \in DecisionArgs({"app"}, {NoDate}, {Ab, UndefText}, {UndefText}, {UNDEF}) :
       remember_decision(a)
  \/ \E a \in RecallArgs({"app"}, {<<"z">>}, {UNDEF}, {0}) : recall_decisions(a)
  \/ \E a \in ListArgs({"app"}, {0}) : list_decisions(a)
  \/ \E a \in ErrorArgs({UNDEF, "lib"}, {ECONN}, {UNDEF}) : remember_error(a)
  \/ \E a \in FindArgs({"lib"}, {UndefText}, {UNDEF}) : find_solution(a)
  \/ \E a \in ContextArgs({"app"}, {"k"}, {UNDEF, "v1"}) : set_context(a)
  \/ \E a \in ContextKeyArgs({"app"}, {"k"}) : get_context(a)
  \/ \E a \in LearningArgs({"app"}, {Ab, UndefText}) : remember_learning(a)
  \/ \E a \in RecallLearningArgs({"app"}, {<<"z">>}, {0}) : recall_learnings(a)
  \/ \E a \in ContextKeyArgs({"app"}, {"k"}) : delete_context(a)
  \/ \E a \in ListArgs({"lib"}, {0}) : list_errors(a)
  \/ \E a \in SearchAllArgs({"app"}, {<<"b">>}) : search_all(a)
  \/ \E a \in SessionArgs({"app"}, {UNDEF}, {UNDEF, "T1"}, {UNDEF}, {UNDEF}) :
       save_session(a)
  \/ \E a \in SessionKeyArgs({"app"}, {UNDEF}) : get_session(a)
  \/ \E a \in SessionKeyArgs({"app"}, {UNDEF}) : clear_session(a)
  \/ \E a \in StatusArgs({"app"}) : memory_status(a)
  \/ \E a \in [project : {"app"}, include_global : {TRUE}] : load_comprehensive_memory(a)
  \/ \E a \in ArchiveArgs({"decision", "note"}, {1}) : archive(a)
  \/ \E a \in PriorityArgs({"decision"}, {1}, {3 * PriorityUnit}) : set_priority(a)
  \/ \E a \in PruneArgs({"app"}, {0 - 1}) : prune(a)
  \/ \E a \in [project : {"app"}, include_archived : {FALSE}] : export_memory(a)
  \/ \E a \in ImportArgs(ImportData({<< >>}, {<< >>}, {<<ContextItem("app", "k", UNDEF)>>},
                                     {<< >>}, {NoSession}) \cup {BadJson}) : import_memory(a)
  \/ \E a \in StatusArgs({"app"}) : memory_stats(a)
  \/ \E a \in CleanupArgs({"app"}, {NoNumber, 0 - 1}, {UNDEF}) : bulk_cleanup(a)
  \/ \E a \in ProjectArgs({"app", "all"}) : sync_to_cloud(a)
  \/ \E a \in ProjectArgs({"app"}) : pull_from_cloud(a)
  \/ \E name \in {"forget_everything"} : unknown_tool(name)
  \/ \E name \in ToolNames : no_arguments(name)
  \/ \E name \in ToolNames \ {"import_memory"} : storage_fault(name, [name |-> name])
  \/ \E a \in ImportArgs(ImportData({<< >>, <<DecisionItem>>}, {<< >>},
                                     {<< >>, <<ContextItem("app", "k", "v1")>>},
                                     {<< >>}, {NoSession}) \cup {BadJson}) :
       storage_fault("import_memory", a)
  \/ list_tools
  \/ \E p \in pending, transportFails \in BOOLEAN : return_push(p, transportFails)
  \/ \E p \in pending, transportFails \in BOOLEAN, raises \in BOOLEAN :
       resume_sync_to_cloud(p, transportFails, raises)
  \/ \E p \in pending, fails \in BOOLEAN : resume_pull_from_cloud(p, fails)
  \/ \E p \in pending, fails \in BOOLEAN : resume_memory_stats(p, fails)
  \/ Tick

Spec == Init /\ [][Next]_vars

\* ------------------------------------------------- the handler's results (C10)
\* every tool, the unknown name, the call without arguments and the database raising for
\* every tool, with the passing of time; of the writes only set_context stores a row
NextHandler ==
  \/ \E a \in DecisionArgs({"app"}, {NoDate}, {UndefText}, {UndefText}, {UNDEF}) :
       remember_decision(a)
  \/ \E a \in RecallArgs({"app"}, {<<"z">>}, {UNDEF}, {0}) : recall_decisions(a)
  \/ \E a \in ListArgs({"app"}, {0}) : list_decisions(a)
  \/ \E a \in ErrorArgs({UNDEF}, {ECONN}, {UNDEF}) : remember_error(a)
  \/ \E a \in FindArgs({"lib"}, {UndefText}, {UNDEF}) : find_solution(a)
  \/ \E a \in ContextArgs({"app"}, {"k"}, {UNDEF, "v1"}) : set_context(a)
  \/ \E a \in ContextKeyArgs({"app"}, {"k"}) : get_context(a)
  \/ \E a \in LearningArgs({"app"}, {UndefText}) : remember_learning(a)
  \/ \E a \in RecallLearningArgs({"app"}, {<<"z">>}, {0}) : recall_learnings(a)
  \/ \E a \in ContextKeyArgs({"app"}, {"j"}) : delete_context(a)
  \/ \E a \in ListArgs({"lib"}, {0}) : list_errors(a)
  \/ \E a \in SearchAllArgs({"app"}, {<<"b">>}) : search_all(a)
  \/ \E a \in SessionArgs({"app"}, {UNDEF}, {UNDEF}, {UNDEF}, {UNDEF}) :
       save_session(a)
  \/ \E a \in SessionKeyArgs({"app"}, {UNDEF}) : get_session(a)
  \/ \E a \in SessionKeyArgs({"app"}, {UNDEF}) : clear_session(a)
  \/ \E a \in StatusArgs({"app"}) : memory_status(a)
  \/ \E a \in [project : {"app"}, include_global : {TRUE}] : load_comprehensive_memory(a)
  \/ \E a \in ArchiveArgs({"decision", "note"}, {1}) : archive(a)
  \/ \E a \in PriorityArgs({"decision"}, {1}, {3 * PriorityUnit}) : set_priority(a)
  \/ \E a \in PruneArgs({"app"}, {0 - 1}) : prune(a)
  \/ \E a \in [project : {"app"}, include_archived : {FALSE}] : export_memory(a)
  \/ \E a \in ImportArgs(ImportData({<< >>}, {<< >>}, {<<ContextItem("app", "k", UNDEF)>>},
                                     {<< >>}, {NoSession}) \cup {BadJson}) : import_memory(a)
  \/ \E a \in StatusArgs({"app"}) : memory_stats(a)
  \/ \E a \in CleanupArgs({"app"}, {NoNumber, 0 - 1}, {UNDEF}) : bulk_cleanup(a)
  \/ \E a \in ProjectArgs({"app"}) : sync_to_cloud(a)
  \/ \E a \in ProjectArgs({"app"}) : pull_from_cloud(a)
  \/ \E name \in {"forget_everything"} : unknown_tool(name)
  \/ \E name \in ToolNames : no_arguments(name)
  \/ \E name \in ToolNames \ {"import_memory"} : storage_fault(name, [name |-> name])
  \/ \E a \in ImportArgs(ImportData({<< >>, <<DecisionItem>>}, {<< >>},
                                     {<< >>, <<ContextItem("app", "k", "v1")>>},
                                     {<< >>}, {NoSession}) \cup {BadJson}) :
       storage_fault("import_memory", a)
  \/ list_tools
  \/ \E p \in pending : return_push(p, p.tool = "set_context")
  \/ \E p \in pending, raises \in BOOLEAN : resume_sync_to_cloud(p, TRUE, raises)
  \/ \E p \in pending : resume_pull_from_cloud(p, p.at = "decisions")
  \/ \E p \in pending, fails \in BOOLEAN : resume_memory_stats(p, fails)
  \/ Tick

SpecHandler == Init /\ [][NextHandler]_vars

\* C10: whatever the tool name (an unknown one included) and the arguments (none at all
\* included), and whatever the database raises, what the handler returns is a text result:
\* no exception leaves it. A name that is no tool is answered "Unknown tool: ", and what a
\* case threw is answered "Error: " with the message of what was thrown.
C10_AlwaysText ==
  result # NoResult =>
    /\ result.type = "text"
    /\ result.tool \notin ToolNames \cup {"tools/list"} => result.text = "Unknown tool: "
    /\ result.text = "Error: " => Len(result.detail) = 1

\* a memory_stats that suspended at its await has gone on, the database raised at its
\* first COUNT, and the call ended in the catch of the handler
C10_Witness ==
  /\ result.tool = "memory_stats"
  /\ result.text = "Error: "
  /\ result.detail = <<"SQLITE_FULL">>
  /\ context # {}
  /\ now > 0

\* ------------------------------------------------- import, row by row (C11)
LearningItem(content) == [project |-> "app", category |-> "gotcha", content |-> content]
\* a context part whose first row has no value, and one whose rows all have one
BrokenContext == <<ContextItem("app", "k", UNDEF), ContextItem("app", "j", "v1")>>
SoundContext == <<ContextItem("app", "k", "v1")>>

NextImport ==
  \/ \E a \in ImportArgs(ImportData({<< >>, <<DecisionItem>>}, {<< >>},
                                     {<< >>, SoundContext, BrokenContext},
                                     {<< >>, <<LearningItem(UndefText), LearningItem(Ab)>>},
                                     {NoSession, ExportedSession}) \cup {BadJson}) :
       import_memory(a)
  \/ \E a \in ContextKeyArgs({"app"}, {UNDEF}) : get_context(a)
  \/ \E a \in ListArgs({"app"}, {0}) : list_decisions(a)
  \/ \E a \in ContextKeyArgs({"app"}, {"k"}) : delete_context(a)

SpecImport == InitLocal /\ [][NextImport]_vars

\* the rows of a part that their statement accepts
Insertable(items, rejects(_)) == {items[i] : i \in {j \in 1..Len(items) : ~rejects(items[j])}}
ContextRejects(c) == upsertContextThrows(c.project, c.key, c.value)
LearningRejects(l) == Missing(l.category) \/ MissingText(l.content)

\* C11: import_memory of a well-formed document skips the rows that cannot be inserted,
\* imports every other row and reports the counts, never an 'Import failed' text.
C11_ImportIsolatesRows ==
  (result.tool = "import_memory" /\ result.args.json_data.valid) =>
    LET data == result.args.json_data
    IN /\ result.text = "Imported: "
       /\ \A c \in Insertable(data.context, ContextRejects) :
            ContextConflict(context, c.project, c.key) # {}
       /\ \A l \in Insertable(data.learnings, LearningRejects) :
            \E r \in learnings : r.content = l.content /\ r.category = l.category

\* ------------------------------------------------- startup on a database file
\* a row of an older schema: the row without the columns that schema lacks
Without(r, columns) == [f \in DOMAIN r \ columns |-> r[f]]

OldDecision == [id |-> 1, project |-> "app", date |-> 1, decision |-> Ab,
                rationale |-> NullText, created_at |-> 0]
OldSession == [id |-> 1, project |-> "app", task |-> "t1", status |-> "in-progress",
               notes |-> NULL, updated_at |-> 0]

\* the schema of revision 1.0.0: no synced_at, no archived, sessions keyed by project
Schema_1_0 == [t \in DOMAIN CreatedSchema |-> IF t = "sessions_new" THEN {} ELSE {"id"}]
\* the schema of revision 2.1.0: synced_at and archived, sessions keyed by project
Schema_2_1 == [CreatedSchema EXCEPT !.sessions = {"id", "synced_at"}]
NoSchema == [t \in DOMAIN CreatedSchema |-> {}]

\* the database files the process may find: none, or one an older revision wrote
InitFile ==
  /\ \E columns \in {NoSchema, Schema_1_0, Schema_2_1} :
       /\ schema = columns
       /\ \E stored \in BOOLEAN :
            /\ decisions = IF stored /\ columns # NoSchema
                           THEN {IF "archived" \in columns["decisions"]
                                 THEN Extend(OldDecision, "archived", 1)
                                 ELSE OldDecision}
                           ELSE {}
            /\ sessions = IF stored /\ columns # NoSchema THEN {OldSession} ELSE {}
            /\ sqlite_sequence = [decisions |-> Cardinality(decisions), errors |-> 0,
                                  context |-> 0, learnings |-> 0,
                                  sessions |-> Cardinality(sessions)]
  /\ errors = {}
  /\ context = {}
  /\ learnings = {}
  /\ config = loadConfig(NoConfigFile)
  /\ firestoreSync = initFirestoreSync(FALSE)
  /\ zone = 0
  /\ pending = {}
  /\ cloud = {}
  /\ now = 0
  /\ result = NoResult
  /\ trace = NoTrace

\* the tools answer once the statements are prepared
Serving == Prepared(schema) /\ result.type # "exception" /\ result # NoResult

NextStartup ==
  \/ startup
  \/ \E statements \in 1..3 : startup_interrupted(statements)
  \/ /\ Serving
     /\ \/ \E a \in DecisionArgs({"app"}, {1}, {Ab}, {NullText}, {"arch"}) :
             remember_decision(a)
        \/ \E a \in SessionArgs({"app"}, {UNDEF, "w1"}, {"t1"}, {UNDEF}, {UNDEF}) :
             save_session(a)
        \/ \E a \in PriorityArgs({"decision"}, {1}, {2 * PriorityUnit}) : set_priority(a)
        \/ \E a \in ArchiveArgs({"decision"}, {1}) : archive(a)
        \/ \E a \in SessionKeyArgs({"app"}, {UNDEF}) : get_session(a)

SpecStartup == InitFile /\ [][NextStartup]_vars

AlreadyMigrated == schema = MigratedSchema

C12_Step ==
  (AlreadyMigrated /\ result'.tool = "(startup)") =>
    /\ UNCHANGED <<store, schema>>
    /\ result'.text = ""
    /\ result'.type = "text"

\* C12: running the startup schema initialisation and migrations on a database that is
\* already migrated changes neither the schema nor any row and reports no error
C12_StartupIdempotent == [][C12_Step]_vars

\* a restart found the migrated database with a workspace session and a raised decision
C12_Witness ==
  /\ result.tool = "(startup)"
  /\ result.text = ""
  /\ \E r \in sessions : r.workspace = "w1"
  /\ \E r \in decisions : r.priority = 2 * PriorityUnit


\* ------------------------------------------------- tiers of the loaded records
Zones == {0 - 1, 0, 1}
AccessCounts == {1, WarmCount, HotCount - 1, HotCount}
AccessTimes == {0, 1}
\* ticks between the last access and the call: around 7 days, around 30 days, and beyond
SinceAccess ==
  {0, HotDays * TicksPerDay - 1, HotDays * TicksPerDay, HotDays * TicksPerDay + 1,
   WarmDays * TicksPerDay - 1, WarmDays * TicksPerDay, WarmDays * TicksPerDay + 1,
   (WarmDays + HotDays) * TicksPerDay}

\* one stored decision, never returned by a recall or returned accessCount times, the last
\* time at accessed; the process runs in one of the zones
InitTier ==
  /\ zone \in Zones
  /\ pending = {}
  /\ \E accessCount \in AccessCounts \cup {0} :
       \E accessed \in IF accessCount = 0 THEN {NoTime} ELSE AccessTimes :
         /\ now \in IF accessed = NoTime THEN {0, WarmDays * TicksPerDay + 1}
                    ELSE {accessed + d : d \in SinceAccess}
         /\ decisions = {[insertDecision(1, "app", 0, Ab, NullText, NULL) EXCEPT
                            !.created_at = 0, !.access_count = accessCount,
                            !.last_accessed = accessed]}
  /\ errors = {}
  /\ context = {}
  /\ learnings = {}
  /\ sessions = {}
  /\ sqlite_sequence = [decisions |-> 1, errors |-> 0, context |-> 0, learnings |-> 0,
                        sessions |-> 0]
  /\ config = loadConfig(NoConfigFile)
  /\ firestoreSync = initFirestoreSync(FALSE)
  /\ schema = MigratedSchema
  /\ cloud = {}
  /\ result = NoResult
  /\ trace = NoTrace

NextTier ==
  \E a \in LoadArgs({"app"}) : load_comprehensive_memory(a)

SpecTier == InitTier /\ [][NextTier]_vars

\* last_accessed is at most the given number of days before now
Within(r, days) == r.last_accessed # NoTime /\ now - r.last_accessed <= days * TicksPerDay

Tier(r) ==
  IF r.access_count >= 5 \/ Within(r, 7) THEN "hot"
  ELSE IF r.access_count >= 2 \/ Within(r, 30) THEN "warm"
  ELSE "cold"

\* C13: the tier shown for a record is "hot" if access_count >= 5 or last_accessed is within
\* 7 days, otherwise "warm" if access_count >= 2 or last_accessed is within 30 days,
\* otherwise "cold"; a record never accessed is classified by its count alone
C13_TierOfRecord ==
  result.tool = "load_comprehensive_memory" =>
    \A i \in 1..Len(result.rows.decisions) :
      result.detail[5].decisions[i] = Tier(result.rows.decisions[i])

\* the same in a process whose local time is UTC
C13_TierInUTC == zone = 0 => C13_TierOfRecord


\* ------------------------------------------------- bulk_cleanup (C14)
NextCleanup ==
  \/ \E a \in DecisionArgs({"app", "web"}, {1}, {Ab}, {UndefText}, {UNDEF}) :
       remember_decision(a)
  \/ \E a \in LearningArgs({UNDEF, "app"}, {Ab}) : remember_learning(a)
  \/ \E a \in ContextArgs({"app"}, {"k"}, {"v1"}) : set_context(a)
  \/ \E a \in SessionArgs({"app"}, {"w1"}, {"T1"}, {UNDEF}, {UNDEF}) : save_session(a)
  \/ \E a \in ArchiveArgs({"decision", "learning"}, {1}) : archive(a)
  \/ \E a \in [project : {"app", "all"}, older_than_days : {0}, archived_only : BOOLEAN,
               type : {UNDEF, "decisions"}] : bulk_cleanup(a)
  \/ Tick

SpecCleanup == InitLocal /\ [][NextCleanup]_vars

\* the row was created more than the given number of days before now
OlderThan(r, days) == r.created_at < now - days * TicksPerDay

\* the table is one the type filter names
OfType(table, type) == type \in {UNDEF, "all", table}

C14_Step ==
  Called("bulk_cleanup") =>
    LET a == result'.args
        gone == Archivable \ Archivable'
    IN /\ Archivable' \subseteq Archivable
       /\ a.archived_only => \A x \in gone : x[2].archived = 1
       /\ ~a.archived_only =>
            \A x \in Archivable :
              (/\ OlderThan(x[2], a.older_than_days)
               /\ a.project = "all" \/ x[2].project = a.project
               /\ OfType(x[1], a.type)) => x \in gone
       /\ \A x \in gone : /\ a.project = "all" \/ x[2].project = a.project
                          /\ OfType(x[1], a.type)
       /\ context' = context
       /\ sessions' = sessions

\* C14: bulk_cleanup with archived_only omitted or true deletes no row that is not archived;
\* with archived_only false it deletes every decision, error and learning that matches the
\* age cutoff, the project and the type filter, archived or not; either way context and
\* session rows, rows of other projects (unless the project is "all") and rows of kinds
\* outside the type filter stay as they are
C14_CleanupScope == [][C14_Step]_vars

\* a cleanup of archived rows has deleted one while a live row as old and a context row
\* or a session stay
C14_Witness ==
  /\ result.tool = "bulk_cleanup"
  /\ result.args.archived_only
  /\ result.detail[1] > 0
  /\ \E r \in decisions \cup errors \cup learnings :
       r.archived = 0 /\ r.project = "app" /\ OlderThan(r, result.args.older_than_days)
  /\ context # {} \/ sessions # {}

\* a cleanup with archived_only false has deleted a row that was never archived
C14_WitnessLive ==
  /\ result.tool = "bulk_cleanup"
  /\ ~result.args.archived_only
  /\ result.detail[1] > 0
  /\ trace.archived = {}


\* ------------------------------------------------- recall_learnings (C15)
NextLearnings ==
  \/ \E a \in LearningArgs({UNDEF, "app", "web"}, {Ab}) \cup LearningArgs({"app"}, {ECONN}) :
       remember_learning(a)
  \/ \E a \in ArchiveArgs({"learning"}, {1}) : archive(a)
  \/ \E a \in RecallLearningArgs({"app", "web"}, {UndefText, <<"a">>}, {0, 1}) :
       recall_learnings(a)

SpecLearnings == InitLocal /\ [][NextLearnings]_vars

\* the ids of the learnings recall_learnings may select for a project
Eligible(project) ==
  {r.id : r \in {l \in learnings : l.project \in {project, NULL} /\ l.archived = 0}}

\* C15: recall_learnings(P) selects among exactly the non-archived learnings whose project
\* is P or null: it returns none other, it returns all of them when no search is given and
\* the limit allows it, and never a learning stored under another project
C15_LearningScope ==
  result.tool = "recall_learnings" =>
    LET a == result.args
        found == result.rows.learnings
        limit == IF a.limit = 0 THEN 20 ELSE a.limit
    IN /\ Ids(found) \subseteq Eligible(a.project)
       /\ \A i \in 1..Len(found) : found[i].project \in {a.project, NULL}
       /\ (FalsyText(a.search) /\ Cardinality(Eligible(a.project)) <= limit) =>
            Ids(found) = Eligible(a.project)
       /\ ~FalsyText(a.search) =>
            Ids(found) = {id \in Eligible(a.project) :
                            \E l \in learnings : l.id = id /\ Like(l.content, Pattern(a.search))}

\* recall_learnings(app) has returned a global learning and one of app while a
\* learning of web is stored
C15_Witness ==
  /\ result.tool = "recall_learnings"
  /\ result.args.project = "app"
  /\ \E i, j \in 1..Len(result.rows.learnings) :
       /\ result.rows.learnings[i].project = NULL
       /\ result.rows.learnings[j].project = "app"
  /\ \E l \in learnings : l.project = "web"


\* ------------------------------------------------- project isolation of reads (C16)
\* writes addressed to app and to web, deletions addressed to web, and a read for app
NextIsolation ==
  \/ \E a \in DecisionArgs({"app", "web"}, {1}, {Ab}, {UndefText}, {"api"}) :
       remember_decision(a)
  \/ \E a \in ErrorArgs({"web"}, {ECONN}, {"api"}) : remember_error(a)
  \/ \E a \in LearningArgs({"app", "web"}, {Ab}) : remember_learning(a)
  \/ \E a \in ContextArgs({"app", "web"}, {"k"}, {"v1"}) : set_context(a)
  \/ \E a \in ContextKeyArgs({"web"}, {"k"}) : delete_context(a)
  \/ \E a \in SessionArgs({"app", "web"}, {UNDEF}, {"T1"}, {UNDEF}, {UNDEF}) :
       save_session(a)
  \/ \E a \in SessionKeyArgs({"web"}, {UNDEF}) : clear_session(a)
  \/ \E a \in PruneArgs({"web"}, {0 - 1}) : prune(a)
  \/ \E a \in [project : {"web"}, older_than_days : {0}, archived_only : {FALSE},
               type : {UNDEF}] : bulk_cleanup(a)
  \/ \E a \in ListArgs({"app"}, {0}) : list_decisions(a)

SpecIsolation == InitLocal /\ [][NextIsolation]_vars

ProjectWrites == {"remember_decision", "remember_error", "remember_learning", "set_context",
                  "delete_context", "save_session", "clear_session", "prune", "bulk_cleanup"}

\* what the statements behind the reads select for a project
View(project) ==
  [getDecisions |-> getDecisions(project, MaxRows),
   getDecisionsByCategory |-> getDecisionsByCategory(project, "api", MaxRows),
   searchDecisions |-> searchDecisions(project, Pattern(<<"a">>), Pattern(<<"a">>)),
   findSolution |-> findSolution(project, Pattern(<<"E">>)),
   findSolutionByCategory |-> findSolutionByCategory(project, "api", Pattern(<<"E">>)),
   getRecentErrors |-> getRecentErrors(project, MaxRows),
   getLearnings |-> getLearnings(project, MaxRows),
   searchLearnings |-> searchLearnings(project, Pattern(<<"a">>)),
   getContext |-> getContext(project),
   getContextValue |-> getContextValue(project, "k"),
   searchContext |-> searchContext(project, Pattern(<<"v">>)),
   getAllSessionsForProject |-> getAllSessionsForProject(project),
   getSessionWithWorkspace |-> getSessionWithWorkspace(project, NULL),
   counts |-> <<CountLive(decisions, project), CountLive(errors, project),
                CountLiveLearnings(project)>>]

C16_Step ==
  \A Q \in {"app", "web"} :
    (result'.tool \in ProjectWrites /\ result'.args.project = Q /\ result' # result) =>
      \A P \in {"app", "web"} \ {Q} : View(P)' = View(P)

\* C16: a write addressed to a project Q changes nothing that the statements behind the
\* reads select for another project P: the same rows, in the same order, with the same
\* counts, before and after the write
C16_WritesLeaveOtherViews == [][C16_Step]_vars

\* a cleanup addressed to web has deleted rows while app has a decision, a context entry
\* or a session of its own
C16_Witness ==
  /\ result.tool = "bulk_cleanup"
  /\ result.args.project = "web"
  /\ result.detail[1] > 0
  /\ \E d \in decisions : d.project = "app"

\* the ids the decisions of a project have in the run that leaves out the writes to the
\* other projects: the decisions of the project are numbered in the order of their storing
SoloIds(project) == 1..Cardinality({d \in decisions : d.project = project})

\* C16 as stated: list_decisions(P) returns the same result as in the run without the
\* writes addressed to the other projects, the ids it shows included
C16_ReadsIsolated ==
  (result.tool = "list_decisions" /\ result.args.project = "app") =>
    Ids(result.rows.decisions) = SoloIds("app")


\* ------------------------------------------------- a process without the mirror (C17)
\* a decision another machine has pushed
RemoteDecision ==
  syncToCloud({}, "decisions", DocId("app", "1"), 1,
              [id |-> "1", project |-> "app", date |-> 1, decision |-> Ab,
               rationale |-> <<"r">>, category |-> "api"], 0, FALSE, FALSE)

ConfigFiles == {NoConfigFile, ConfigFile("broken", TRUE, "m1"), ConfigFile("null", FALSE, UNDEF),
                ConfigFile("present", FALSE, UNDEF), ConfigFile("present", TRUE, UNDEF),
                ConfigFile("present", TRUE, "m1")}

\* the process starts with any configuration file, the client building or not, and the
\* remote store empty or holding a document
InitConfigured ==
  /\ EmptyStore
  /\ \E file \in ConfigFiles : config = loadConfig(file)
  /\ \E clientBuilds \in BOOLEAN : firestoreSync = initFirestoreSync(clientBuilds)
  /\ schema = MigratedSchema
  /\ zone = 0
  /\ pending = {}
  /\ now = 0
  /\ cloud \in {{}, RemoteDecision}
  /\ result = NoResult
  /\ trace = NoTrace

\* a request is handled only by a process that has connected
NextConfigured ==
  \/ Connected /\ \E a \in DecisionArgs({"app"}, {1}, {Ab}, {<<"r">>}, {"api"}) :
                    remember_decision(a)
  \/ Connected /\ \E a \in ErrorArgs({"app"}, {ECONN}, {"api"}) : remember_error(a)
  \/ Connected /\ \E a \in LearningArgs({"app"}, {Ab}) : remember_learning(a)
  \/ Connected /\ \E a \in ContextArgs({"app"}, {"k"}, {"v1", "v2"}) : set_context(a)
  \/ Connected /\ \E a \in SessionArgs({"app"}, {"w1"}, {"T1"}, {"done"}, {"n"}) :
                    save_session(a)
  \/ Connected /\ \E a \in ProjectArgs({"app", "all"}) : sync_to_cloud(a)
  \/ Connected /\ \E a \in ProjectArgs({"app"}) : pull_from_cloud(a)
  \/ Connected /\ list_tools
  \/ \E p \in pending : return_push(p, FALSE)
  \/ \E p \in pending : resume_sync_to_cloud(p, FALSE, FALSE)
  \/ \E p \in pending : resume_pull_from_cloud(p, FALSE)

SpecConfigured == InitConfigured /\ [][NextConfigured]_vars

\* sync is not configured, is disabled, or its client was not built
MirrorAbsent == ~config.firestore.enabled \/ ~firestoreSync

C17_Step ==
  MirrorAbsent =>
    /\ ~firestoreSync /\ ~firestoreSync'
    /\ cloud' = cloud
    /\ trace'.push = NoPush
    /\ result'.tool \in {"sync_to_cloud", "pull_from_cloud"} =>
         /\ UNCHANGED store
         /\ result'.text = "Firestore sync not enabled"
    /\ result'.tool = "tools/list" =>
         result'.detail[1] \cap {"sync_to_cloud", "pull_from_cloud"} = {}

\* C17: when the sync configuration is absent or disabled, or the client could not be built
\* at startup, the mirror stays absent: the tool list offers neither sync_to_cloud nor
\* pull_from_cloud, calling them changes neither the local nor the remote store, and no
\* write attempts a push
C17_MirrorAbsent == [][C17_Step]_vars

\* pull_from_cloud was called in a process whose configuration enables sync but whose
\* client was not built, while the remote store holds a document and rows are stored
C17_Witness ==
  /\ result.tool = "pull_from_cloud"
  /\ config.firestore.enabled
  /\ ~firestoreSync
  /\ cloud # {}
  /\ decisions # {}


\* ------------------------------------------------- the exported document (C18)
\* the rows of a project that an export is to hold
ToExport(rows, project, includeArchived) ==
  {r \in rows : r.project = project /\ (includeArchived \/ r.archived = 0)}

\* C18: export_memory(P) returns one JSON document, not an error text; its decisions, errors
\* and learnings are P's non-archived rows (all of P's rows with include_archived), its
\* context is all of P's context rows, and it carries P's sessions
C18_ExportDocument ==
  (result.tool = "export_memory" /\ trace.stage = "exported") =>
    LET P == result.args.project
        all == result.args.include_archived
    IN /\ result.text = "json"
       /\ Range(result.rows.decisions) = ToExport(decisions, P, all)
       /\ Range(result.rows.errors) = ToExport(errors, P, all)
       /\ Range(result.rows.learnings) = ToExport(learnings, P, all)
       /\ Range(result.rows.context) = {r \in context : r.project = P}
       /\ Range(result.rows.sessions) = {r \in sessions : r.project = P}


\* ------------------------------------------------- limits of the recalls (C19)
NextRecall ==
  \/ \E a \in DecisionArgs({"app"}, {1}, {Ab}, {UndefText}, {UNDEF, "api"}) :
       remember_decision(a)
  \/ \E a \in LearningArgs({UNDEF, "app"}, {Ab}) : remember_learning(a)
  \/ \E a \in RecallArgs({"app"}, {UndefText, <<"a">>}, {UNDEF, "api"}, {0, 1, 2}) :
       recall_decisions(a)
  \/ \E a \in RecallLearningArgs({"app"}, {UndefText, <<"a">>}, {0, 1, 2}) :
       recall_learnings(a)

SpecRecall == InitLocal /\ [][NextRecall]_vars

\* args.limit || 10 of recall_decisions, args.limit || 20 of recall_learnings
LimitOf(call) ==
  IF call.args.limit # 0 THEN call.args.limit
  ELSE IF call.tool = "recall_decisions" THEN 10 ELSE 20

\* C19: recall_decisions and recall_learnings return at most limit rows (10 and 20 when the
\* limit is omitted), whatever the project, search, category and limit arguments
C19_RecallLimit ==
  result.tool \in {"recall_decisions", "recall_learnings"} =>
    /\ Len(result.rows.decisions) <= LimitOf(result)
    /\ Len(result.rows.learnings) <= LimitOf(result)

\* the same for the calls without a search
C19_LimitWithoutSearch ==
  (result.tool \in {"recall_decisions", "recall_learnings"} /\ FalsyText(result.args.search))
    => C19_RecallLimit


\* ------------------------------------------------- limits of the comprehensive load (C20)
\* a store in which app has the given numbers of decisions, errors and learnings, the
\* learnings all of high priority, next to the given number of global learnings
InitLoaded ==
  /\ now = 0
  /\ \E d \in {0, DECISION_LIMIT, DECISION_LIMIT + 1} :
       /\ decisions = {insertDecision(i, "app", 1, Ab, NullText, NULL) : i \in 1..d}
       /\ \E e \in {0, ERROR_LIMIT, ERROR_LIMIT + 1} :
            /\ errors = {insertError(i, "app", ECONN, Ab, NullText, NULL) : i \in 1..e}
            /\ \E n \in {0, 1, LEARNING_LIMIT - 1, LEARNING_LIMIT}, g \in 0..2 :
                 /\ learnings =
                      {[insertLearning(i, "app", "gotcha", Ab) EXCEPT !.priority = PriorityUnit] :
                         i \in 1..n}
                      \cup {insertLearning(i, NULL, "gotcha", Ab) : i \in (n + 1)..(n + g)}
                 /\ sqlite_sequence = [decisions |-> d, errors |-> e, context |-> 0,
                                       learnings |-> n + g, sessions |-> 0]
  /\ context = {}
  /\ sessions = {}
  /\ config = loadConfig(NoConfigFile)
  /\ firestoreSync = initFirestoreSync(FALSE)
  /\ schema = MigratedSchema
  /\ zone = 0
  /\ pending = {}
  /\ cloud = {}
  /\ result = NoResult
  /\ trace = NoTrace

NextLoaded ==
  \E a \in LoadArgs({"app"}) : load_comprehensive_memory(a)

SpecLoaded == InitLoaded /\ [][NextLoaded]_vars

\* C20: load_comprehensive_memory returns at most 30 decisions, at most 50 learnings and at
\* most 15 errors, with and without include_global, and no learning id twice
C20_LoadLimits ==
  result.tool = "load_comprehensive_memory" =>
    /\ Len(result.rows.decisions) <= 30
    /\ Len(result.rows.learnings) <= 50
    /\ Len(result.rows.errors) <= 15
    /\ Cardinality(Ids(result.rows.learnings)) = Len(result.rows.learnings)

\* the same without the bound on the learnings, and that bound without include_global
C20_OtherLimits ==
  result.tool = "load_comprehensive_memory" =>
    /\ Len(result.rows.decisions) <= 30
    /\ Len(result.rows.errors) <= 15
    /\ Cardinality(Ids(result.rows.learnings)) = Len(result.rows.learnings)
    /\ ~result.args.include_global => Len(result.rows.learnings) <= 50


\* ------------------------------------------------- the sessions rebuild (C21)
C21_Step ==
  result'.tool = "(startup)" =>
    /\ schema'["sessions_new"] = {}
    /\ schema'["sessions"] # {}
    /\ \A r \in sessions : r \in sessions' \/ Extend(r, "workspace", NULL) \in sessions'

\* C21: the rebuild of the sessions table is atomic: whether it completes, fails or is
\* interrupted, the startup leaves either the old sessions table or the migrated one, with
\* every row it had (workspace NULL), and never a missing sessions table, a lost row or a
\* leftover sessions_new table
C21_RebuildAtomic == [][C21_Step]_vars

\* the migration of a later startup fails on the table an earlier one left behind
C21_StuckOnShadow ==
  /\ result.tool = "(startup)"
  /\ result.text = "Sessions migration error: table sessions_new already exists"


\* ------------------------------------------------- a failed migration (C29)
MigrationFailed ==
  /\ result.tool = "(startup)"
  /\ result.text \in {"Sessions migration error: no such column: synced_at",
                      "Sessions migration error: table sessions_new already exists"}

\* C29: a startup whose sessions migration threw still completes, and the server then
\* serves the calls that do not touch the sessions table
C29_FailedMigrationServes == MigrationFailed => Serving


\* ------------------------------------------------- access tracking (C22)
NextAccess ==
  \/ \E a \in DecisionArgs({"app"}, {1}, {Ab}, {UndefText}, {UNDEF}) :
       remember_decision(a)
  \/ \E a \in ErrorArgs({"app"}, {Ab, ECONN}, {UNDEF}) : remember_error(a)
  \/ \E a \in LearningArgs({"app"}, {Ab}) : remember_learning(a)
  \/ \E a \in RecallArgs({"app"}, {UndefText}, {UNDEF}, {0, 1}) : recall_decisions(a)
  \/ \E a \in FindArgs({"app"}, {<<"a">>}, {UNDEF}) : find_solution(a)
  \/ \E a \in RecallLearningArgs({"app"}, {UndefText}, {1}) : recall_learnings(a)
  \/ \E a \in ListArgs({"app"}, {0}) : list_decisions(a) \/ list_errors(a)
  \/ \E a \in StatusArgs({"app"}) : memory_status(a)
  \/ \E a \in LoadArgs({"app"}) : load_comprehensive_memory(a)
  \/ Tick

SpecAccess == InitLocal /\ [][NextAccess]_vars

\* the rows of a table after one access was recorded on exactly the rows with these ids
Accessed(rows, ids) ==
  {IF r.id \in ids
   THEN [r EXCEPT !.access_count = r.access_count + 1, !.last_accessed = now]
   ELSE r : r \in rows}

RecallReads == {"recall_decisions", "find_solution", "recall_learnings"}
ListReads == {"list_decisions", "list_errors", "memory_status", "load_comprehensive_memory"}

C22_Step ==
  /\ \A tool \in RecallReads : Called(tool) =>
       /\ decisions' = Accessed(decisions, Ids(result'.rows.decisions))
       /\ errors' = Accessed(errors, Ids(result'.rows.errors))
       /\ learnings' = Accessed(learnings, Ids(result'.rows.learnings))
       /\ UNCHANGED <<context, sessions>>
  /\ \A tool \in ListReads : Called(tool) => UNCHANGED store

\* C22: recall_decisions, find_solution and recall_learnings add one to access_count and set
\* last_accessed to the time of the call on each row they return and on no other row;
\* list_decisions, list_errors, memory_status and load_comprehensive_memory change no row
C22_AccessTracking == [][C22_Step]_vars

\* a recall has returned one of two stored rows: that row is counted and stamped after the
\* time it was stored, the other is untouched
C22_Witness ==
  /\ result.tool \in RecallReads
  /\ \E t \in {"decisions", "errors", "learnings"} :
       /\ Len(result.rows[t]) = 1
       /\ \E r, u \in TableRows(t) :
            /\ r.id \in Ids(result.rows[t])
            /\ r.access_count = 1 /\ r.last_accessed = now /\ now > 0
            /\ u.access_count = 0 /\ u.last_accessed = NoTime


\* ------------------------------------------------- category before search (C23)
NextCategory ==
  \/ \E a \in DecisionArgs({"app", "web"}, {1}, {Ab, ECONN}, {UndefText}, {"api", "ui"}) :
       remember_decision(a)
  \/ \E a \in ArchiveArgs({"decision"}, {1}) : archive(a)
  \/ \E a \in RecallArgs({"app"}, {<<"a">>}, {"api"}, {0, 1}) : recall_decisions(a)

SpecCategory == InitLocal /\ [][NextCategory]_vars

InCategory(args) ==
  {r \in decisions : r.project = args.project /\ r.category = args.category /\ r.archived = 0}

C23_Step ==
  Called("recall_decisions") /\ result'.args.category = "api" /\ result'.args.search = <<"a">> =>
    LET args == result'.args
        returned == result'.rows.decisions
        limit == IF args.limit = 0 THEN 10 ELSE args.limit
    IN /\ Ids(returned) \subseteq {r.id : r \in InCategory(args)}
       /\ Len(returned) = Min(limit, Cardinality(InCategory(args)))
       /\ Cardinality(Ids(returned)) = Len(returned)
       /\ \A i \in 1..Len(returned) : \A r \in InCategory(args) :
            r.id \notin Ids(returned) =>
              \/ r.priority < returned[i].priority
              \/ r.priority = returned[i].priority /\ r.date <= returned[i].date

\* C23: recall_decisions called with a category and a search term answers by category: it
\* returns the non-archived decisions of the project that have the category, in the
\* standard order and up to the limit, whether or not the search term occurs in them
C23_CategoryFirst == [][C23_Step]_vars

\* a recall by category and search has returned a decision the search term does not occur
\* in, while a decision of another category that has the term stayed out
C23_Witness ==
  /\ result.tool = "recall_decisions"
  /\ result.args.category = "api" /\ result.args.search = <<"a">>
  /\ \E i \in 1..Len(result.rows.decisions) : result.rows.decisions[i].decision = ECONN
  /\ \E r \in decisions : r.project = "app" /\ r.category = "ui" /\ r.decision = Ab
                          /\ r.archived = 0


\* ------------------------------------------------- archive and set_priority (C25)
NextItem ==
  \/ \E a \in DecisionArgs({"app"}, {1}, {Ab}, {UndefText}, {UNDEF}) : remember_decision(a)
  \/ \E a \in ErrorArgs({"app"}, {ECONN}, {UNDEF}) : remember_error(a)
  \/ \E a \in LearningArgs({"app"}, {Ab}) : remember_learning(a)
  \/ \E a \in ArchiveArgs({"decision", "learning", "note", "constructor", "isPrototypeOf",
                             "__proto__"}, 1..2) : archive(a)
  \/ \E a \in PriorityArgs({"decision", "error", "note", "constructor", "__proto__"}, 1..2,
                           {PriorityUnit, 2 * PriorityUnit}) : set_priority(a)

SpecItem == InitLocal /\ [][NextItem]_vars

\* the rows of a table where the row with this id, and no other, got this value in a column
WithColumn(rows, id, column, value) ==
  {IF r.id = id THEN [r EXCEPT ![column] = value] ELSE r : r \in rows}

TableRowsAfter(table) ==
  CASE table = "decisions" -> decisions'
    [] table = "errors" -> errors'
    [] table = "learnings" -> learnings'

ItemStep(tool, column, value) ==
  Called(tool) =>
    LET args == result'.args
        table == tableMap(args.type)
    IN IF args.type \notin Types
       THEN UNCHANGED store /\ result'.text = "Invalid type: "
       ELSE IF \A r \in TableRows(table) : r.id # args.id
       THEN UNCHANGED store /\ result'.text = "No item found with ID "
       ELSE /\ \A t \in Tables \ {table} : TableRowsAfter(t) = TableRows(t)
            /\ TableRowsAfter(table) = WithColumn(TableRows(table), args.id, column, value)
            /\ UNCHANGED <<context, sessions, sqlite_sequence>>

C25_Step ==
  /\ ItemStep("archive", "archived", 1)
  /\ ItemStep("set_priority", "priority", result'.args.priority)

\* C25: archive and set_priority answer an unknown type with the invalid-type text and an id
\* no row has with the not-found text, and change no row then; when they apply they change
\* the archived flag (the priority) of the one row with that id in that table, nothing else
C25_ItemOnly == [][C25_Step]_vars

\* the same for every type that is not the name of an inherited object property
C25_OwnNames ==
  [][result'.tool \in {"archive", "set_priority"} /\ result'.args.type \notin ObjectPrototype
       => C25_Step]_vars


\* ------------------------------------------------- the age cutoff (C26)
NextCutoff ==
  \/ \E a \in DecisionArgs({"app"}, {1}, {Ab}, {UndefText}, {UNDEF}) : remember_decision(a)
  \/ \E a \in LearningArgs({"app"}, {Ab}) : remember_learning(a)
  \/ \E a \in ArchiveArgs({"decision", "learning"}, 1..2) : archive(a)
  \/ \E a \in PruneArgs({"app"}, {0, 1}) : prune(a)
  \/ \E a \in [project : {"app"}, older_than_days : {0, 1}, archived_only : BOOLEAN,
               type : {UNDEF}] : bulk_cleanup(a)
  \/ Tick

SpecCutoff == InitLocal /\ [][NextCutoff]_vars

\* the instant now minus the days of the call that has just answered
CutoffInstant ==
  now - TicksPerDay * (IF result'.tool = "bulk_cleanup" THEN result'.args.older_than_days
                       ELSE IF result'.args.days = 0 THEN DefaultPruneDays
                       ELSE result'.args.days)

C26_Step ==
  Called("prune") \/ Called("bulk_cleanup") =>
    \A x \in Archivable \ Archivable' : x[2].created_at < CutoffInstant

\* C26: prune and bulk_cleanup delete a row only if it was created strictly before the
\* instant now minus the given days; a row created at or after that instant, later on the
\* cutoff's calendar day included, is never deleted
C26_StrictlyOlder == [][C26_Step]_vars

\* what the comparison of the two texts decides: a row is deleted only if the calendar day
\* of its creation is not after the calendar day of the cutoff
C26_ByCalendarDay ==
  [][Called("prune") \/ Called("bulk_cleanup") =>
       \A x \in Archivable \ Archivable' : Day(x[2].created_at) <= Day(CutoffInstant)]_vars


\* ------------------------------------------------- one document per record (C27)
NextPush ==
  \/ \E a \in DecisionArgs({"app"}, {1}, {Ab}, {<<"r">>}, {"api"}) : remember_decision(a)
  \/ \E a \in LearningArgs({UNDEF, "app"}, {Ab}) : remember_learning(a)
  \/ \E a \in ContextArgs({"app"}, {"k"}, {"v1", "v2"}) : set_context(a)
  \/ \E a \in SessionArgs({"app"}, {UNDEF, "w1"}, {"T1"}, {"done"}, {"n"}) :
       save_session(a)
  \/ \E a \in ProjectArgs({"app", "all"}) : sync_to_cloud(a)
  \/ \E p \in pending : return_push(p, FALSE)
  \/ \E p \in pending : resume_sync_to_cloud(p, FALSE, FALSE)

SpecPush == InitMirror /\ [][NextPush]_vars

Documents(table) == {d \in cloud : d.table = table}

\* C27: the write-time push and sync_to_cloud address one document per record, so the
\* mirror never holds more documents of a kind than there are local records of that kind
\* (no record is deleted in this specification)
C27_OneDocumentPerRecord ==
  /\ Cardinality(Documents("decisions")) <= Cardinality(decisions)
  /\ Cardinality(Documents("errors")) <= Cardinality(errors)
  /\ Cardinality(Documents("learnings")) <= Cardinality(learnings)
  /\ Cardinality(Documents("context")) <= Cardinality(context)
  /\ Cardinality(Documents("sessions")) <= Cardinality(sessions)

\* the same for the kinds whose write-time push carries the row id
C27_RowIdKinds ==
  /\ Cardinality(Documents("decisions")) <= Cardinality(decisions)
  /\ Cardinality(Documents("learnings")) <= Cardinality(learnings)


\* ------------------------------------------------- archival is one-way (C28)
NextOneWay ==
  \/ \E a \in DecisionArgs({"app"}, {1}, {Ab}, {<<"r">>}, {"api"}) : remember_decision(a)
  \/ \E a \in ErrorArgs({"app"}, {ECONN}, {UNDEF}) : remember_error(a)
  \/ \E a \in LearningArgs({"app"}, {Ab}) : remember_learning(a)
  \/ \E a \in ArchiveArgs(Types, 1..2) : archive(a)
  \/ \E a \in PriorityArgs({"decision"}, {1}, {PriorityUnit}) : set_priority(a)
  \/ \E a \in RecallArgs({"app"}, {UndefText}, {UNDEF}, {0}) : recall_decisions(a)
  \/ \E a \in ImportArgs(ImportData({<<DecisionItem>>}, {<< >>}, {<< >>},
                                     {<<LearningItem(Ab)>>}, {NoSession})) : import_memory(a)
  \/ \E a \in ProjectArgs({"app"}) : pull_from_cloud(a)
  \/ \E a \in PruneArgs({"app"}, {0 - 1}) : prune(a)
  \/ \E a \in [project : {"app"}, older_than_days : {0 - 1}, archived_only : BOOLEAN,
               type : {"errors"}] : bulk_cleanup(a)
  \/ \E p \in pending : return_push(p, FALSE)
  \/ \E p \in pending : resume_pull_from_cloud(p, FALSE)

SpecOneWay == InitMirror /\ [][NextOneWay]_vars

C28_Step ==
  \A t \in Tables : \A r \in TableRows(t) :
    r.archived = 1 =>
      IF \E u \in TableRowsAfter(t) : u.id = r.id
      THEN \A u \in TableRowsAfter(t) : u.id = r.id => u.archived = 1
      ELSE result'.tool \in {"prune", "bulk_cleanup"}

\* C28: a decision, error or learning whose archived flag is 1 keeps it at 1 through every
\* call until prune or bulk_cleanup deletes the row; no call, import_memory and
\* pull_from_cloud included, sets the flag back to 0 or removes the row otherwise
C28_ArchivedStays == [][C28_Step]_vars

\* import_memory or pull_from_cloud has stored a live copy of an archived learning under a
\* new id, and the archived row is still archived
C28_Witness ==
  /\ \/ result.tool = "import_memory" /\ result.text = "Imported: " /\ result.detail[4] = 1
     \/ result.tool = "pull_from_cloud" /\ result.detail[1] > 0
  /\ \E r, u \in learnings :
       /\ r.archived = 1 /\ u.archived = 0
       /\ u.content = r.content /\ u.id = sqlite_sequence["learnings"] /\ u.id > r.id


\* ------------------------------------------------- the push outcome stays inside (C30)
WrittenTable(tool) ==
  CASE tool = "remember_decision" -> "decisions"
    [] tool = "remember_error" -> "errors"
    [] tool = "set_context" -> "context"
    [] tool = "remember_learning" -> "learnings"
    [] tool = "save_session" -> "sessions"

\* the written table differs from what it was by the row the call wrote: at most one row
\* is new, and at most one row, the one an upsert replaced, is gone
OthersKept(table) ==
  /\ Cardinality(AllRows'[table] \ AllRows[table]) <= 1
  /\ Cardinality(AllRows[table] \ AllRows'[table]) <= 1

C30_Step ==
  /\ \A tool \in WriteTools :
       (firestoreSync /\ Suspends(tool)) =>
         /\ WrittenIn(AllRows', sqlite_sequence', tool, Started.args)
         /\ OthersKept(WrittenTable(tool))
         /\ \A t \in DOMAIN AllRows \ {WrittenTable(tool)} : AllRows'[t] = AllRows[t]
         /\ cloud' = cloud
  /\ Returning.tool \in WriteTools =>
       /\ trace'.push \in {"ok", "failed"}
       /\ result'.type = "text"
       /\ result'.text = SuccessText(Returning.tool)
       /\ result'.detail[Len(result'.detail)] = " (synced)"
       /\ UNCHANGED store

\* C30: with the mirror active, what a write returns and what it leaves in the local store
\* do not depend on whether its push succeeded: the row is written, and its other rows kept,
\* before the push, and when the push has settled, either way, the call returns the success
\* text with the (synced) annotation and leaves the store as it is
C30_PushNotObservable == [][C30_Step]_vars

\* the push of a set_context failed and the call answered as it does when the push succeeds
C30_Witness ==
  /\ firestoreSync
  /\ result.tool = "set_context"
  /\ trace.push = "failed"
  /\ result.text = "Context set for "
  /\ result.detail[3] = " (synced)"
  /\ \E r \in context : r.key = result.args.key /\ r.value = result.args.value


\* ------------------------------------------------- calls suspended at an await (C24)

NextCalls ==
  \/ \E a \in LearningArgs({"app"}, {Ab}) : remember_learning(a)
  \/ \E p \in pending, transportFails \in BOOLEAN : return_push(p, transportFails)
  \/ \E a \in ProjectArgs({"app"}) : pull_from_cloud(a)
  \/ \E p \in pending : resume_pull_from_cloud(p, FALSE)
  \/ \E a \in ListArgs({"app"}, {0}) : list_decisions(a)
  \/ \E a \in ArchiveArgs({"learning"}, 1..2) : archive(a)

SpecCalls == InitMirror /\ [][NextCalls]_vars

\* C24: tool calls are serialised: while a call is suspended at a push or a pull, the only
\* thing that happens is that call going on: no other call is taken up, none reads or
\* changes the local store, so the steps of two calls on the store never interleave
C24_Serialised ==
  [][pending # {} => /\ Numbers(pending') \subseteq Numbers(pending)
                     /\ \E p \in pending : p \notin pending']_vars

C24_Step ==
  \A p \in pending :
    p.tool \in WriteTools /\ p \notin pending' => UNCHANGED store

\* what the handler does keep: a write makes its change to the local store before it
\* suspends at its push and makes none when it goes on
C24_WritesBeforeSuspending == [][C24_Step]_vars

====
